---- MODULE Spec2Model ----
(***************************************************************************)
(* Moderated multi-party Kubernetes sessions of teleport: the session      *)
(* access evaluator (lib/auth/session_access.go) and the live session      *)
(* (lib/kube/proxy/sess.go): party roster, session state, session lock,    *)
(* launch, expiry watcher, presence check, force termination and Close.    *)
(***************************************************************************)
EXTENDS Integers, Sequences, FiniteSets, TLC

(***************************************************************************)
(* Bounds of the model.                                                    *)
(***************************************************************************)
\* Number of party objects that may try to join one session.
NumParties == 3
\* Number of failures (of the tracker, the role directory, a client, the
\* recorder, the executor) injected in one run.
MaxFaults == 1

(***************************************************************************)
(* Names are sequences of one-character strings, so that glob matching is  *)
(* computed over characters.                                               *)
(***************************************************************************)
HostRoleName == <<"h", "r">>
ModRoleName  == <<"m">>

SSHSessionKind        == "ssh"
KubernetesSessionKind == "k8s"
WildcardKind          == "*"

SessionPeerMode      == "peer"
SessionModeratorMode == "moderator"
SessionObserverMode  == "observer"

OnSessionLeaveTerminate == "terminate"
OnSessionLeavePause     == "pause"

V4 == "v4"
V5 == "v5"

StatePending    == "Pending"
StateRunning    == "Running"
StateTerminated == "Terminated"

NoErr == "nil"

\* contains(s []string, e) of the evaluator, and membership in any sequence.
contains(s, e) == \E i \in 1..Len(s) : s[i] = e

(***************************************************************************)
(* Glob matching of a pattern against a name: '*' is any run of            *)
(* characters, '?' any single character, anything else is literal, and the *)
(* match is anchored at both ends.                                         *)
(***************************************************************************)
RECURSIVE GlobMatch(_, _)
GlobMatch(pattern, name) ==
    IF pattern = <<>> THEN name = <<>>
    ELSE IF Head(pattern) = "*"
         THEN \/ GlobMatch(Tail(pattern), name)
              \/ (name # <<>> /\ GlobMatch(pattern, Tail(name)))
    ELSE IF name = <<>> THEN FALSE
    ELSE IF Head(pattern) = "?" THEN GlobMatch(Tail(pattern), Tail(name))
    ELSE Head(pattern) = Head(name) /\ GlobMatch(Tail(pattern), Tail(name))

(***************************************************************************)
(* The session access evaluator.  An evaluator is a record                 *)
(*   [kind, requires, roles].                                              *)
(* A role is [name, version, requires, joins]; a require policy is         *)
(* [filter, kinds, count, onLeave]; a join policy is [roles, kinds, modes];*)
(* a participant (SessionAccessContext) is [username, roles].              *)
(***************************************************************************)
RECURSIVE getRequirePolicies(_)
getRequirePolicies(roles) ==
    IF roles = <<>> THEN <<>>
    ELSE Head(roles).requires \o getRequirePolicies(Tail(roles))

RECURSIVE getAllowPolicies(_)
getAllowPolicies(roles) ==
    IF roles = <<>> THEN <<>>
    ELSE Head(roles).joins \o getAllowPolicies(Tail(roles))

NewSessionAccessEvaluator(roles, kind) ==
    [kind |-> kind, requires |-> getRequirePolicies(roles), roles |-> roles]

RoleNamesOf(roles) == [i \in 1..Len(roles) |-> roles[i].name]

\* SessionAccessContext.GetIdentifier: participant.name, participant.roles,
\* anything else is not found.
GetIdentifier(ctx, fields) ==
    IF fields # <<>> /\ fields[1] = "participant" /\ Len(fields) \in {2, 3}
       /\ fields[2] \in {"name", "roles"}
    THEN [err |-> NoErr,
          value |-> IF fields[2] = "name" THEN <<ctx.username>>
                    ELSE RoleNamesOf(ctx.roles)]
    ELSE [err |-> "NotFound", value |-> <<>>]

\* The where-parser applied to a filter contains(<identifier>, <literal>).
EvalFilter(ctx, filter) ==
    LET id == GetIdentifier(ctx, filter.ident)
    IN  IF id.err # NoErr THEN [err |-> id.err, ok |-> FALSE]
        ELSE [err |-> NoErr, ok |-> contains(id.value, filter.lit)]

matchesKind(e, allow) == contains(allow, e.kind) \/ contains(allow, WildcardKind)

\* A variant of matchesPredicate that does not evaluate the filter, kept for
\* trying the property of C21 against it.
matchesPredicateNoFilter(e, ctx, require, allow) ==
    [err |-> NoErr,
     ok |-> matchesKind(e, require.kinds) /\ matchesKind(e, allow.kinds)]

matchesPredicate(e, ctx, require, allow) ==
    IF ~matchesKind(e, require.kinds) \/ ~matchesKind(e, allow.kinds)
    THEN [err |-> NoErr, ok |-> FALSE]
    ELSE EvalFilter(ctx, require.filter)

\* The host role's name is turned into the expression and the join policy's
\* roles entry is the string that is matched.
matchesJoin(e, allow) ==
    /\ matchesKind(e, allow.kinds)
    /\ \E i \in 1..Len(e.roles) : \E j \in 1..Len(allow.roles) :
          GlobMatch(e.roles[i].name, allow.roles[j])

supportsSessionAccessControls(e) ==
    IF e.kind = SSHSessionKind /\ e.roles # <<>>
    THEN CASE e.roles[1].version \in {"v1", "v2", "v3", V4} ->
                 [err |-> NoErr, supported |-> FALSE]
           [] e.roles[1].version = V5 ->
                 [err |-> NoErr, supported |-> TRUE]
           [] OTHER -> [err |-> "BadParameter", supported |-> FALSE]
    ELSE [err |-> NoErr, supported |-> FALSE]

preAccessControlsModes(kind) ==
    IF kind = SSHSessionKind THEN <<SessionPeerMode>> ELSE <<>>

SliceContainsMode(s, m) == contains(s, m)

RECURSIVE AppendModes(_, _)
AppendModes(modes, new) ==
    IF new = <<>> THEN modes
    ELSE AppendModes(IF SliceContainsMode(modes, Head(new)) THEN modes
                     ELSE Append(modes, Head(new)), Tail(new))

RECURSIVE CollectModes(_, _, _)
CollectModes(e, allows, modes) ==
    IF allows = <<>> THEN modes
    ELSE CollectModes(e, Tail(allows),
                      IF matchesJoin(e, Head(allows))
                      THEN AppendModes(modes, Head(allows).modes)
                      ELSE modes)

CanJoin(e, user) ==
    LET s == supportsSessionAccessControls(e)
    IN  IF s.err # NoErr THEN [err |-> s.err, modes |-> <<>>]
        ELSE IF ~s.supported
             THEN [err |-> NoErr, modes |-> preAccessControlsModes(e.kind)]
        ELSE [err |-> NoErr,
              modes |-> CollectModes(e, getAllowPolicies(user.roles), <<>>)]

NotFulfilled == [yes |-> FALSE, TerminateOnLeave |-> FALSE, err |-> NoErr]

\* The inner loop of FulfilledFor over one participant's allow policies:
\* "match", "nomatch", or the error of matchesPredicate.
RECURSIVE AllowScan(_, _, _, _)
AllowScan(e, participant, require, allows) ==
    IF allows = <<>> THEN "nomatch"
    ELSE LET mp == matchesPredicate(e, participant, require, Head(allows))
         IN  IF mp.err # NoErr THEN mp.err
             ELSE IF mp.ok /\ matchesJoin(e, Head(allows)) THEN "match"
             ELSE AllowScan(e, participant, require, Tail(allows))

\* The loop over the participants for one require policy; "next" when the
\* participants are exhausted with the count not reached.
RECURSIVE ParticipantScan(_, _, _, _)
ParticipantScan(e, require, participants, left) ==
    IF participants = <<>> THEN [next |-> TRUE, res |-> NotFulfilled]
    ELSE LET r == AllowScan(e, Head(participants), require,
                            getAllowPolicies(Head(participants).roles))
             left2 == IF r = "match" THEN left - 1 ELSE left
         IN  IF r \notin {"match", "nomatch"}
             THEN [next |-> FALSE,
                   res |-> [yes |-> FALSE, TerminateOnLeave |-> FALSE, err |-> r]]
             ELSE IF left2 <= 0
             THEN [next |-> FALSE,
                   res |-> CASE require.onLeave = OnSessionLeaveTerminate ->
                                  [yes |-> TRUE, TerminateOnLeave |-> TRUE, err |-> NoErr]
                             [] require.onLeave = OnSessionLeavePause ->
                                  [yes |-> TRUE, TerminateOnLeave |-> FALSE, err |-> NoErr]
                             [] OTHER ->
                                  [yes |-> FALSE, TerminateOnLeave |-> FALSE,
                                   err |-> "BadParameter"]]
             ELSE ParticipantScan(e, require, Tail(participants), left2)

RECURSIVE RequireScan(_, _, _)
RequireScan(e, requires, participants) ==
    IF requires = <<>> THEN NotFulfilled
    ELSE LET r == ParticipantScan(e, Head(requires), participants, Head(requires).count)
         IN  IF r.next THEN RequireScan(e, Tail(requires), participants) ELSE r.res

FulfilledFor(e, participants) ==
    LET s == supportsSessionAccessControls(e)
    IN  IF s.err # NoErr
        THEN [yes |-> FALSE, TerminateOnLeave |-> FALSE, err |-> s.err]
        ELSE IF Len(e.requires) = 0 \/ ~s.supported
        THEN [yes |-> TRUE, TerminateOnLeave |-> FALSE, err |-> NoErr]
        ELSE RequireScan(e, e.requires, participants)


(***************************************************************************)
(* The roles of the model.  The initiator holds the host role, which       *)
(* carries one require policy: one participant holding the moderator role. *)
(* The moderator role carries a join policy for the host role.             *)
(***************************************************************************)
ModFilter == [ident |-> <<"participant", "roles">>, lit |-> ModRoleName]

HostRole(onLeave) ==
    [name |-> HostRoleName, version |-> V5,
     requires |-> <<[filter |-> ModFilter, kinds |-> <<KubernetesSessionKind>>,
                     count |-> 1, onLeave |-> onLeave]>>,
     joins |-> <<>>]

ModRole ==
    [name |-> ModRoleName, version |-> V5, requires |-> <<>>,
     joins |-> <<[roles |-> <<HostRoleName>>, kinds |-> <<KubernetesSessionKind>>,
                  modes |-> <<SessionModeratorMode, SessionPeerMode>>]>>]

(***************************************************************************)
(* The parties.  Party 1 is the initiator (a kubectl client, a peer); the  *)
(* others are websocket clients that ask for a mode when they join.  Every *)
(* third party is another user, who holds the moderator role; the rest are *)
(* further connections of the initiator's user.                            *)
(***************************************************************************)
Parties   == 1..NumParties
initiator == 1

Modes == {SessionPeerMode, SessionModeratorMode, SessionObserverMode}

PartyUser(p) == IF p % 3 = 0 THEN "bob" ELSE "alice"

\* The mode a party is created with: the initiator is a peer, a party of
\* another user asks for moderator, a further connection of the initiator's
\* user for any mode.
JoinModes(p) == IF p = initiator THEN {SessionPeerMode}
                ELSE IF PartyUser(p) # PartyUser(initiator)
                     THEN {SessionModeratorMode}
                ELSE Modes

\* kubeProxyClientStreams.forceTerminate returns a channel nothing sends on;
\* a websocket client's channel carries the client's force-terminate message.
ClientCanForceTerminate(p) == p # initiator

LaunchPcs == {"start", "lock", "stream", "closeBlocked", "done"}

VARIABLES
    hostOnLeave,        \* on_leave of the require policy of the initiator's role
    tty,                \* s.tty
    PresenceEnabled,    \* s.PresenceEnabled
    state,              \* s.state
    parties,            \* s.parties (ids of the live parties)
    partiesHistorical,  \* s.partiesHistorical
    started,            \* s.started
    mu,                 \* s.mu: "free", or the goroutine that holds it for good
    closeBodyRuns,      \* times the body under s.closeOnce has run
    closeCFired,        \* times close(s.closeC) has been executed
    closeReq,           \* some Close call has been made and waits for s.mu
    closeNoop,          \* some Close call has returned without running the body
    published,          \* states submitted to s.stateUpdate, in order
    trackerState,       \* state of the session tracker record
    trackerParts,       \* participants of the session tracker record
    trackerTermUpdates, \* trackerUpdateState(Terminated) calls made
    ioReaders,          \* party readers registered in s.io
    ioWriters,          \* party writers registered in s.io
    ioOn,               \* the on/off gate of s.io
    ioClosed,           \* s.io.Close() has been called
    recorder,           \* s.recorder: "nil", "open" or "closed"
    sizeQueues,         \* s.terminalSizeQueue.queues
    joinResult,         \* per party: what its join call returned
    partyMode,          \* per party: p.Mode
    clientCloses,       \* per party: times p.Client.Close() has been called
    ftWatch,            \* parties whose force-terminate watcher is waiting
    waiters,            \* waitOnAccess goroutines spawned
    launches,           \* number of launch goroutines at each position
    expWaiting,         \* expiry watchers in their select, or past its timer case
                        \* and waiting for s.mu
    execInvoked,        \* times executor.Stream has been invoked
    expired,            \* the time s.expires has passed
    faults,             \* failures injected so far
    kickFailed,         \* a leave called by checkPresence has returned an error
    endEvents,          \* the end-of-session audit events emitted so far
    evaluator,          \* a SessionAccessEvaluator under evaluation
    callParticipants,   \* the participants handed to FulfilledFor
    fulfilled,          \* what FulfilledFor returned, <<>> before the call
    canJoin,            \* the user and the result of CanJoin, <<>> before the call
    bkList,             \* the value of the backend's list key: session ids
    bkItems,            \* the value of each session's record key, NoItem if absent
    clock,              \* time.Now(), in minutes
    call,               \* per client of the store: the call in progress
    ret,                \* per client: its last call and what it returned
    ncalls,             \* per client: calls begun so far
    queues,             \* multiResizeQueue: the ids whose channel is registered
    chClosed,           \* the resize channels that are closed
    chPending,          \* per resize channel: the sizes waiting to be received
    nextResults,        \* what the calls of multiResizeQueue.Next returned
    termStdin,          \* KubeSession: the bytes still to be read from s.term.Stdin()
    termStdout,         \* the bytes written to s.term.Stdout()
    streamIn,           \* the bytes still to be read from the remote stream
    streamOut,          \* the bytes written to the remote stream
    stdinLoop,          \* the goroutine reading stdin: "running" or "done"
    copyLoop,           \* the goroutine copying the stream: "running" or "done"
    cancelled,          \* s.cancel() has run
    forceTerminateSent, \* s.stream.ForceTerminate() has been called
    waiter              \* the goroutines running waitOnAccess: position, next value

vars == <<hostOnLeave, tty, PresenceEnabled, state, parties, partiesHistorical,
          started, mu, closeBodyRuns, closeCFired, closeReq, closeNoop,
          published, trackerState, trackerParts, trackerTermUpdates, ioReaders,
          ioWriters, ioOn, ioClosed, recorder, sizeQueues, joinResult, partyMode,
          clientCloses, ftWatch, waiters, launches, expWaiting,
          execInvoked, expired, faults, kickFailed, endEvents,
          evaluator, callParticipants, fulfilled, canJoin,
          bkList, bkItems, clock, call, ret, ncalls,
          queues, chClosed, chPending, nextResults,
          termStdin, termStdout, streamIn, streamOut, stdinLoop, copyLoop,
          cancelled, forceTerminateSent, waiter>>

evalVars == <<evaluator, callParticipants, fulfilled, canJoin>>

storeVars == <<bkList, bkItems, clock, call, ret, ncalls>>

\* The state of the multiResizeQueue and of its input channels.
queueVars == <<queues, chClosed, chPending, nextResults>>

\* The client's join adapter: the terminal, the stream and its two
\* goroutines.
pipeVars == <<termStdin, termStdout, streamIn, streamOut, stdinLoop, copyLoop,
              cancelled, forceTerminateSent>>

\* The components that are modelled on their own.
compVars == <<queueVars, pipeVars, waiter>>

cfgVars == <<hostOnLeave, tty, PresenceEnabled>>

\* s.accessEvaluator, built by newSession from the initiator's roles.
accessEvaluator ==
    NewSessionAccessEvaluator(<<HostRole(hostOnLeave)>>, KubernetesSessionKind)

\* newSession and trackerCreate: a Pending session with empty rosters, the
\* tracker record holding the initiator.
newSession ==
    /\ hostOnLeave \in {OnSessionLeaveTerminate, OnSessionLeavePause}
    /\ tty \in BOOLEAN
    /\ PresenceEnabled \in BOOLEAN
    /\ state = StatePending
    /\ parties = {}
    /\ partiesHistorical = {}
    /\ started = FALSE
    /\ mu = "free"
    /\ closeBodyRuns = 0
    /\ closeCFired = 0
    /\ closeReq = FALSE
    /\ closeNoop = FALSE
    /\ published = <<>>
    /\ trackerState = StatePending
    /\ trackerParts = {initiator}
    /\ trackerTermUpdates = 0
    /\ ioReaders = {}
    /\ ioWriters = {}
    /\ ioOn = TRUE
    /\ ioClosed = FALSE
    /\ recorder = "nil"
    /\ sizeQueues = {}
    /\ joinResult = [p \in Parties |-> "none"]
    /\ partyMode = [p \in Parties |-> "none"]
    /\ clientCloses = [p \in Parties |-> 0]
    /\ ftWatch = {}
    /\ waiters = 0
    /\ launches = [pc \in LaunchPcs |-> 0]
    /\ expWaiting = 0
    /\ execInvoked = 0
    /\ expired = FALSE
    /\ faults = 0
    /\ kickFailed = FALSE
    /\ endEvents = <<>>

\* The session ids, the clients of the tracker store and the calls each
\* client makes.
NumIds     == 2
NumClients == 2
MaxCalls   == 2
MaxClock   == 6

Ids     == 1..NumIds
Clients == 1..NumClients

\* No call in progress.
IdleCall ==
    [op |-> "idle", id |-> 0, pc |-> "idle", now |-> 0, expires |-> 0,
     upd |-> "none", item |-> <<>>, list |-> <<>>, newList |-> <<>>,
     i |-> 0, garbage |-> {}, retried |-> FALSE]

\* NewSessionTrackerService on an empty backend: createList writes the list
\* key with the value [], no record key exists.
NewSessionTrackerService ==
    /\ bkList = <<>>
    /\ bkItems = [id \in Ids |-> <<>>]
    /\ clock = 0
    /\ call = [c \in Clients |-> IdleCall]
    /\ ret = [c \in Clients |->
                 [op |-> "none", err |-> "none", retried |-> FALSE]]
    /\ ncalls = [c \in Clients |-> 0]

\* The resize channels a multiResizeQueue merges, the sizes that can wait
\* in one channel and the calls of Next.
NumQueues == 2
MaxSizes  == 1
MaxNexts  == 2

QueueIds == 1..NumQueues

\* newMultiResizeQueue: no channel is registered.
newMultiResizeQueue ==
    /\ queues = {}
    /\ chClosed = {}
    /\ chPending = [q \in QueueIds |-> 0]
    /\ nextResults = <<>>

\* The bytes typed at the terminal and sent by the remote side.
MaxInput  == 3
MaxRemote == 2

CtrlC == "\\x03"
CtrlT == "\\x14"
StdinBytes  == {"a", "t", CtrlC, CtrlT}
RemoteBytes == {"x", "y"}

\* The sequences over S of length at most n.
BytesUpTo(S, n) == UNION {[1..k -> S] : k \in 0..n}

\* pipeInOut has started its two goroutines; input and remote are the bytes
\* that will arrive on stdin and on the stream.
pipeInOut(input, remote) ==
    /\ termStdin = input
    /\ streamIn = remote
    /\ termStdout = <<>>
    /\ streamOut = <<>>
    /\ stdinLoop = "running"
    /\ copyLoop = "running"
    /\ cancelled = FALSE
    /\ forceTerminateSent = FALSE

\* The goroutines that can run waitOnAccess at the same time.
MaxWaiters == 1

Waiters == 1..MaxWaiters

\* The components as constructed: an empty queue, a terminal on which
\* nothing is typed, no waiter.
newComponents ==
    /\ newMultiResizeQueue
    /\ pipeInOut(<<>>, <<>>)
    /\ waiter = [w \in Waiters |-> [pc |-> "none", next |-> 0]]

\* The session after newSession; its evaluator is s.accessEvaluator and
\* FulfilledFor has not been called.
Init ==
    /\ newSession
    /\ evaluator = accessEvaluator
    /\ callParticipants = <<>>
    /\ fulfilled = <<>>
    /\ canJoin = <<>>
    /\ NewSessionTrackerService
    /\ newComponents

\* A step may fail only while the run's failures are not used up.
MayFail(n) == faults + n <= MaxFaults

(***************************************************************************)
(* Helpers over the party roster.                                          *)
(***************************************************************************)
PartyRoles(p) == IF PartyUser(p) = PartyUser(initiator)
                 THEN accessEvaluator.roles ELSE <<ModRole>>

RECURSIVE SetToSeq(_)
SetToSeq(S) ==
    IF S = {} THEN <<>>
    ELSE LET m == CHOOSE x \in S : \A y \in S : x <= y
         IN  <<m>> \o SetToSeq(S \ {m})

\* canStart: the parties of another user than the initiator's become the
\* participants (roles only); rolesErr is a failing GetRole lookup.
canStart(ps, rolesErr) ==
    LET others == SetToSeq({p \in ps : PartyUser(p) # PartyUser(initiator)})
        participants == [i \in 1..Len(others) |->
                            [username |-> "", roles |-> PartyRoles(others[i])]]
    IN  IF rolesErr /\ others # <<>>
        THEN [yes |-> FALSE, TerminateOnLeave |-> FALSE, err |-> "RolesErr"]
        ELSE FulfilledFor(accessEvaluator, participants)

\* party.Close: the client is closed under the party's closeOnce.
partyClose(cc, p) == IF cc[p] = 0 THEN [cc EXCEPT ![p] = 1] ELSE cc

(***************************************************************************)
(* session.leave, run by its callers under s.mu.  It maps the fields it    *)
(* reads and writes (a record v) to their new values.  fault is the step   *)
(* that fails: "tracker" (trackerRemoveParticipant), "close" (party.Close, *)
(* after the client was closed), "roles" (a role lookup of canStart).      *)
(***************************************************************************)
SessionView ==
    [state |-> state, parties |-> parties, sizeQueues |-> sizeQueues,
     ioReaders |-> ioReaders, ioWriters |-> ioWriters,
     trackerParts |-> trackerParts, clientCloses |-> clientCloses,
     closeReq |-> closeReq, published |-> published, waiters |-> waiters,
     faults |-> faults]

leaveIsNoop(v, id) == v.state = StateTerminated \/ id \notin v.parties

\* Close is called in a new goroutine when the roster is empty or the
\* initiator has left.
leaveCloses(ps, id) == ps = {} \/ id = initiator

\* Whether the failing step is one this call of leave reaches.
leaveFails(v, id, fault) ==
    /\ fault # "none"
    /\ ~leaveIsNoop(v, id)
    /\ fault = "roles" =>
          /\ ~leaveCloses(v.parties \ {id}, id)
          /\ \E q \in v.parties \ {id} : PartyUser(q) # PartyUser(initiator)

leave(v, id, fault) ==
    IF leaveIsNoop(v, id) THEN v
    ELSE LET v0 == IF leaveFails(v, id, fault)
                   THEN [v EXCEPT !.faults = @ + 1] ELSE v
             v1 == [v0 EXCEPT !.parties = @ \ {id}, !.sizeQueues = @ \ {id},
                              !.ioReaders = @ \ {id}, !.ioWriters = @ \ {id}]
             v2 == [v1 EXCEPT !.trackerParts = @ \ {id},
                              !.clientCloses = partyClose(@, id)]
             scheduleClose == [v2 EXCEPT !.closeReq = TRUE]
             cs == canStart(v2.parties, fault = "roles")
         IN  IF fault = "tracker" THEN v1
             ELSE IF fault = "close" THEN v2
             ELSE IF leaveCloses(v2.parties, id) THEN scheduleClose
             ELSE IF cs.err # NoErr THEN v2
             ELSE IF ~cs.yes
                  THEN IF cs.TerminateOnLeave THEN scheduleClose
                       ELSE [v2 EXCEPT !.state = StatePending,
                                       !.published = Append(@, StatePending),
                                       !.waiters = @ + 1]
             ELSE v2

LeaveFaults == {"none", "tracker", "close", "roles"}

\* The variables written from a view returned by leave.
ApplyView(v) ==
    /\ state' = v.state
    /\ parties' = v.parties
    /\ sizeQueues' = v.sizeQueues
    /\ ioReaders' = v.ioReaders
    /\ ioWriters' = v.ioWriters
    /\ trackerParts' = v.trackerParts
    /\ clientCloses' = v.clientCloses
    /\ closeReq' = v.closeReq
    /\ published' = v.published
    /\ waiters' = v.waiters
    /\ faults' = v.faults

\* A party's connection ends and the forwarder removes the party: it takes
\* s.mu, calls leave and releases s.mu.
Leave(p) ==
    /\ mu = "free"
    /\ p \in parties
    /\ \E fault \in LeaveFaults :
          /\ fault # "none" => leaveFails(SessionView, p, fault) /\ MayFail(1)
          /\ ApplyView(leave(SessionView, p, fault))
    /\ UNCHANGED <<compVars, storeVars, evalVars, cfgVars, kickFailed, endEvents, partiesHistorical, started, mu, closeBodyRuns,
                   closeCFired, closeNoop, trackerState, trackerTermUpdates,
                   ioOn, ioClosed, recorder, joinResult, partyMode, ftWatch,
                   launches, expWaiting, execInvoked, expired>>

\* s.io.OnWriteError, installed by launch: a failed write to a party's
\* writer removes that party, under s.mu.
OnWriteError(p) ==
    /\ mu = "free"
    /\ started
    /\ ~ioClosed
    /\ p \in ioWriters
    /\ \E fault \in LeaveFaults :
          /\ fault # "none" => leaveFails(SessionView, p, fault) /\ MayFail(1)
          /\ ApplyView(leave(SessionView, p, fault))
    /\ UNCHANGED <<compVars, storeVars, evalVars, cfgVars, kickFailed, endEvents, partiesHistorical, started, mu, closeBodyRuns,
                   closeCFired, closeNoop, trackerState, trackerTermUpdates,
                   ioOn, ioClosed, recorder, joinResult, partyMode, ftWatch,
                   launches, expWaiting, execInvoked, expired>>

(***************************************************************************)
(* session.join, all of it under s.mu.  fault is the step that fails:      *)
(* "roles" (the joiner's role lookup), "tracker" (trackerAddParticipant),  *)
(* "write" (writing the recent history to the joiner), "canStart" (a role  *)
(* lookup of canStart).                                                    *)
(***************************************************************************)
JoinFaults == {"none", "roles", "tracker", "write", "canStart"}

\* The access check at the head of join: skipped for the initiator's user.
joinAccess(p, mode, fault) ==
    IF PartyUser(p) = PartyUser(initiator) THEN "ok"
    ELSE IF fault = "roles" THEN "RolesErr"
    ELSE LET r == CanJoin(accessEvaluator,
                          [username |-> PartyUser(p), roles |-> PartyRoles(p)])
         IN  IF r.err # NoErr THEN r.err
             ELSE IF ~SliceContainsMode(r.modes, mode) THEN "AccessDenied"
             ELSE "ok"

\* A join that registers the party whatever the access check said: the
\* variant against which the unaffected-session property of C4 is tried.
joinRegistersDenied(access) == TRUE

\* The party is put into both rosters once the access check has passed.
joinRegisters(access) == access = "ok"

\* A join that evaluates the start conditions in every state but Running:
\* the variant against which the terminal-state property of C1 is tried.
joinEvaluatesTerminated(st) == st # StateRunning

\* join goes on to evaluate the start conditions only for a Pending session.
joinEvaluates(st) == st = StatePending

\* A join that wires the stdin of the initiator's user without looking at
\* s.tty.
joinAddsReaderWithoutTty(p) == PartyUser(p) = PartyUser(initiator)

\* The party's stdin becomes a reader of the I/O manager when the session
\* has a terminal and the party's user is the initiator's.
joinAddsReader(p) == tty /\ PartyUser(p) = PartyUser(initiator)

\* The force-terminate watcher is spawned for every mode but observer.
joinWatchesForceTerminate(mode) == mode # SessionObserverMode

\* The session is created when the initiator arrives, and the initiator's
\* party is the first to be joined.
joinOrder(p) == p # initiator => joinResult[initiator] # "none"

Join(p) ==
    /\ mu = "free"
    /\ joinResult[p] = "none"
    /\ joinOrder(p)
    /\ \E mode \in JoinModes(p), fault \in JoinFaults :
        LET access     == joinAccess(p, mode, fault)
            registered == joinRegisters(access)
            tracked    == registered /\ fault # "tracker"
            wired      == tracked /\ fault # "write"
            evaluates  == wired /\ joinEvaluates(state)
            cs         == canStart(parties \cup {p}, fault = "canStart")
            resumes    == evaluates /\ cs.err = NoErr /\ started /\ cs.yes
            launchGo   == evaluates /\ cs.err = NoErr /\ ~started /\ cs.yes
            result     == IF access # "ok" THEN access
                          ELSE IF ~tracked THEN "TrackerErr"
                          ELSE IF ~wired THEN "WriteErr"
                          ELSE IF ~evaluates THEN "ok"
                          ELSE IF cs.err # NoErr THEN cs.err
                          ELSE IF ~cs.yes /\ ~tty THEN "AccessDeniedLaunch"
                          ELSE "ok"
            failed     == \/ access = "RolesErr"
                          \/ registered /\ fault \in {"tracker", "write"}
                          \/ evaluates /\ cs.err = "RolesErr"
        IN  /\ (fault # "none") = failed
            /\ failed => MayFail(1)
            /\ faults' = IF failed THEN faults + 1 ELSE faults
            /\ joinResult' = [joinResult EXCEPT ![p] = result]
            /\ partyMode' = [partyMode EXCEPT ![p] = mode]
            /\ parties' = IF registered THEN parties \cup {p} ELSE parties
            /\ partiesHistorical' = IF registered THEN partiesHistorical \cup {p}
                                    ELSE partiesHistorical
            /\ trackerParts' = IF tracked THEN trackerParts \cup {p} ELSE trackerParts
            /\ sizeQueues' = IF tracked /\ tty THEN sizeQueues \cup {p} ELSE sizeQueues
            /\ ioReaders' = IF tracked /\ joinAddsReader(p)
                            THEN ioReaders \cup {p} ELSE ioReaders
            /\ ioWriters' = IF wired THEN ioWriters \cup {p} ELSE ioWriters
            /\ ftWatch' = IF wired /\ joinWatchesForceTerminate(mode)
                             /\ closeCFired = 0
                          THEN ftWatch \cup {p} ELSE ftWatch
            /\ state' = IF resumes THEN StateRunning ELSE state
            /\ published' = IF resumes THEN Append(published, StateRunning)
                            ELSE published
            /\ launches' = IF launchGo
                           THEN [launches EXCEPT !["start"] = @ + 1]
                           ELSE launches
    /\ UNCHANGED <<compVars, storeVars, evalVars, cfgVars, kickFailed, endEvents, started, mu, closeBodyRuns, closeCFired, closeReq,
                   closeNoop, trackerState, trackerTermUpdates, ioOn, ioClosed,
                   recorder, clientCloses, waiters, expWaiting,
                   execInvoked, expired>>

\* A websocket client sends its force-terminate message.  The watcher of a
\* party that has one calls Close in a new goroutine and exits.
ForceTerminate(p) ==
    /\ ClientCanForceTerminate(p)
    /\ joinResult[p] = "ok"
    /\ clientCloses[p] = 0
    /\ ftWatch' = ftWatch \ {p}
    /\ closeReq' = (closeReq \/ p \in ftWatch)
    /\ UNCHANGED <<compVars, storeVars, evalVars, cfgVars, kickFailed, endEvents, state, parties, partiesHistorical, started, mu,
                   closeBodyRuns, closeCFired, closeNoop, published,
                   trackerState, trackerParts, trackerTermUpdates, ioReaders,
                   ioWriters, ioOn, ioClosed, recorder, sizeQueues, joinResult,
                   partyMode, clientCloses, waiters, launches, expWaiting,
                   execInvoked, expired, faults>>

(***************************************************************************)
(* session.Close.  A call waits for s.mu; the body runs under s.closeOnce. *)
(***************************************************************************)
\* A Close without s.closeOnce: the variant against which the idempotence
\* of C10 is tried.
closeOnceNever == FALSE

closeOnceDone == closeBodyRuns > 0

RECURSIVE closeParties(_, _)
closeParties(cc, ps) ==
    IF ps = {} THEN cc
    ELSE LET q == CHOOSE x \in ps : TRUE
         IN  closeParties(partyClose(cc, q), ps \ {q})

\* A waiting Close call acquires s.mu, runs the body if it is the first,
\* releases s.mu and returns.  trackerErr: the tracker update fails, which
\* is logged only.
Close ==
    /\ closeReq
    /\ mu = "free"
    /\ closeReq' = FALSE
    /\ IF closeOnceDone
       THEN /\ closeNoop' = TRUE
            /\ UNCHANGED <<state, ioClosed, published, trackerState,
                           trackerTermUpdates, closeCFired, clientCloses,
                           closeBodyRuns, ftWatch, recorder, faults, expWaiting>>
       ELSE /\ closeBodyRuns' = closeBodyRuns + 1
            /\ UNCHANGED closeNoop
            /\ state' = StateTerminated
            /\ ioClosed' = TRUE
            /\ published' = Append(published, StateTerminated)
            /\ trackerTermUpdates' = trackerTermUpdates + 1
            /\ \E trackerErr \in BOOLEAN :
                  /\ trackerErr => MayFail(1)
                  /\ faults' = IF trackerErr THEN faults + 1 ELSE faults
                  /\ trackerState' = IF trackerErr THEN trackerState
                                     ELSE StateTerminated
            /\ closeCFired' = closeCFired + 1
            /\ expWaiting' = IF expired THEN expWaiting ELSE 0
            /\ ftWatch' = {}
            /\ clientCloses' = closeParties(clientCloses, parties)
            /\ recorder' = IF recorder = "nil" THEN "nil" ELSE "closed"
    /\ UNCHANGED <<compVars, storeVars, evalVars, cfgVars, kickFailed, endEvents, parties, partiesHistorical, started, mu, trackerParts,
                   ioReaders, ioWriters, ioOn, sizeQueues, joinResult, partyMode,
                   waiters, launches, execInvoked, expired>>

(***************************************************************************)
(* session.launch, one goroutine per join that started it.                 *)
(***************************************************************************)
Move(from, to) == [launches EXCEPT ![from] = @ - 1, ![to] = @ + 1]

\* The head of launch: the expiry watcher is spawned (and the presence
\* ticker, when presence is enabled); launch then waits for s.mu.  The
\* watcher reaches its select at once: it stays there, or takes the timer
\* case when the session has expired, or takes the s.closeC case and
\* returns when s.closeC is closed; when both are ready either happens.
LaunchStart ==
    /\ launches["start"] > 0
    /\ launches' = Move("start", "lock")
    /\ \E returns \in BOOLEAN :
          /\ returns => closeCFired > 0
          /\ ~returns => closeCFired = 0 \/ expired
          /\ expWaiting' = IF returns THEN expWaiting ELSE expWaiting + 1
    /\ UNCHANGED <<compVars, storeVars, evalVars, cfgVars, kickFailed, endEvents, state, parties, partiesHistorical, started, mu,
                   closeBodyRuns, closeCFired, closeReq, closeNoop, published,
                   trackerState, trackerParts, trackerTermUpdates, ioReaders,
                   ioWriters, ioOn, ioClosed, recorder, sizeQueues, joinResult,
                   partyMode, clientCloses, ftWatch, waiters,
                   execInvoked, expired, faults>>

LaunchFaults == {"none", "tracker", "recorder", "executor"}

\* The part of launch under s.mu.  It fails at the tracker update, at the
\* creation of the recorder (tty only) or at the creation of the executor,
\* and then returns without releasing s.mu: the deferred Close waits for
\* s.mu, which its own goroutine holds.  Otherwise it releases s.mu and
\* invokes the executor.
LaunchLocked ==
    /\ launches["lock"] > 0
    /\ mu = "free"
    /\ \E fault \in LaunchFaults :
        /\ fault = "recorder" => tty
        /\ fault # "none" => MayFail(1)
        /\ faults' = IF fault = "none" THEN faults ELSE faults + 1
        /\ trackerState' = IF fault = "tracker" THEN trackerState ELSE StateRunning
        /\ started' = IF fault = "tracker" THEN started ELSE TRUE
        /\ recorder' = IF tty /\ fault \in {"none", "executor"}
                       THEN "open" ELSE recorder
        /\ IF fault = "none"
           THEN /\ mu' = "free"
                /\ launches' = Move("lock", "stream")
                /\ execInvoked' = execInvoked + 1
           ELSE /\ mu' = "launch"
                /\ launches' = Move("lock", "closeBlocked")
                /\ UNCHANGED execInvoked
    /\ UNCHANGED <<compVars, storeVars, evalVars, cfgVars, kickFailed, endEvents, state, parties, partiesHistorical, closeBodyRuns,
                   closeCFired, closeReq, closeNoop, published, trackerParts,
                   trackerTermUpdates, ioReaders, ioWriters, ioOn, ioClosed,
                   sizeQueues, joinResult, partyMode, clientCloses, ftWatch,
                   waiters, expWaiting, expired>>

\* The audit events the function deferred after the creation of the executor
\* emits when launch returns.
launchEndEvents(isTty) == IF isTty THEN <<"SessionData", "SessionEnd">>
                          ELSE <<"Exec">>

\* executor.Stream returns; the deferred functions run in the reverse order
\* of their registration: the end events are emitted, then Close is called.
ExecutorReturns ==
    /\ launches["stream"] > 0
    /\ launches' = Move("stream", "done")
    /\ endEvents' = endEvents \o launchEndEvents(tty)
    /\ closeReq' = TRUE
    /\ UNCHANGED <<compVars, storeVars, evalVars, cfgVars, kickFailed, state, parties, partiesHistorical, started, mu,
                   closeBodyRuns, closeCFired, closeNoop, published,
                   trackerState, trackerParts, trackerTermUpdates, ioReaders,
                   ioWriters, ioOn, ioClosed, recorder, sizeQueues, joinResult,
                   partyMode, clientCloses, ftWatch, waiters,
                   expWaiting, execInvoked, expired, faults>>

(***************************************************************************)
(* The expiry watchers, one per launch: a select on the expiry timer and   *)
(* on s.closeC.  A watcher blocked in the select is woken by the first of  *)
(* the two that becomes ready: the timers take every waiting watcher to    *)
(* the timer case, the close of s.closeC makes every waiting watcher       *)
(* return.                                                                 *)
(***************************************************************************)
\* The clock passes s.expires.
Expire ==
    /\ ~expired
    /\ expired' = TRUE
    /\ UNCHANGED <<compVars, storeVars, evalVars, cfgVars, kickFailed, endEvents, state, parties, partiesHistorical, started, mu,
                   closeBodyRuns, closeCFired, closeReq, closeNoop, published,
                   trackerState, trackerParts, trackerTermUpdates, ioReaders,
                   ioWriters, ioOn, ioClosed, recorder, sizeQueues, joinResult,
                   partyMode, clientCloses, ftWatch, waiters,
                   launches, expWaiting, execInvoked, faults>>

\* The timer case: a watcher takes s.mu, broadcasts and calls Close, whose
\* first statement is s.mu.Lock(): the watcher waits for the lock it holds.
ExpiryWatcherFires ==
    /\ expWaiting > 0
    /\ expired
    /\ mu = "free"
    /\ mu' = "expiry"
    /\ expWaiting' = expWaiting - 1
    /\ UNCHANGED <<compVars, storeVars, evalVars, cfgVars, kickFailed, endEvents, state, parties, partiesHistorical, started,
                   closeBodyRuns, closeCFired, closeReq, closeNoop, published,
                   trackerState, trackerParts, trackerTermUpdates, ioReaders,
                   ioWriters, ioOn, ioClosed, recorder, sizeQueues, joinResult,
                   partyMode, clientCloses, ftWatch, waiters,
                   launches, execInvoked, expired, faults>>

(***************************************************************************)
(* The presence ticker and session.checkPresence.                          *)
(***************************************************************************)
\* The calls of leave that one checkPresence makes, one after the other.
RECURSIVE leaveAll(_, _, _)
leaveAll(v, ids, fs) ==
    IF ids = {} THEN v
    ELSE LET m == CHOOSE x \in ids : \A y \in ids : x <= y
         IN  leaveAll(leave(v, m, fs[m]), ids \ {m}, fs)

\* PresenceMaxDifference, in seconds.
PresenceMaxDifference == 60

\* The lags (now minus last_active, in seconds) a tracker participant may
\* show at a tick: below, at and above the limit.
Lags == {PresenceMaxDifference - 1, PresenceMaxDifference, PresenceMaxDifference + 1}

\* A variant of the test of checkPresence without the mode check, kept for
\* trying the property of C11 against it.
kickedAnyMode(parts, lag) ==
    {p \in parts : p # initiator /\ lag[p] > PresenceMaxDifference}

\* The participants of the tracker record that checkPresence removes: not
\* the initiator, in moderator mode, last active more than
\* PresenceMaxDifference ago.
kicked(parts, lag) ==
    {p \in parts : /\ p # initiator
                   /\ partyMode[p] = SessionModeratorMode
                   /\ lag[p] > PresenceMaxDifference}

\* checkPresence once trackerGet has returned the record: leave is called
\* for every participant to remove; its errors are logged.
checkPresence(v, lag, fs) == leaveAll(v, kicked(v.trackerParts, lag), fs)

\* A ticker runs from the head of launch until s.closeC is closed.
tickerRunning ==
    /\ PresenceEnabled
    /\ \E pc \in LaunchPcs \ {"start"} : launches[pc] > 0
    /\ closeCFired = 0

\* One tick.  trackerErr: trackerGet fails, checkPresence returns the error
\* and the ticker calls Close.  lag: the lag of every participant of the
\* tracker record.  fs: the failing step of each call of leave.
PresenceTick ==
    /\ tickerRunning
    /\ mu = "free"
    /\ \E trackerErr \in BOOLEAN :
        IF trackerErr
        THEN /\ MayFail(1)
             /\ faults' = faults + 1
             /\ closeReq' = TRUE
             /\ UNCHANGED <<state, parties, sizeQueues, ioReaders, ioWriters,
                            trackerParts, clientCloses, published, waiters,
                            kickFailed>>
        ELSE \E lag \in [trackerParts -> Lags] :
             \E fs \in [kicked(trackerParts, lag) -> LeaveFaults] :
                LET n == Cardinality({p \in DOMAIN fs : fs[p] # "none"})
                    v == checkPresence(SessionView, lag, fs)
                IN  /\ v.faults = faults + n
                    /\ MayFail(n)
                    /\ ApplyView(v)
                    /\ kickFailed' = (kickFailed \/ n > 0)
    /\ UNCHANGED <<compVars, storeVars, evalVars, cfgVars, endEvents, partiesHistorical, started, mu, closeBodyRuns,
                   closeCFired, closeNoop, trackerState, trackerTermUpdates,
                   ioOn, ioClosed, recorder, joinResult, partyMode, ftWatch,
                   launches, expWaiting, execInvoked, expired>>

(***************************************************************************)
(* The specification.                                                      *)
(***************************************************************************)
Next ==
    \/ \E p \in Parties : Join(p)
    \/ \E p \in Parties : Leave(p)
    \/ \E p \in Parties : OnWriteError(p)
    \/ \E p \in Parties : ForceTerminate(p)
    \/ Close
    \/ LaunchStart
    \/ LaunchLocked
    \/ ExecutorReturns
    \/ Expire
    \/ ExpiryWatcherFires
    \/ PresenceTick

Spec == Init /\ [][Next]_vars

\* The goroutines of the session are scheduled fairly and s.mu is handed to
\* a waiting goroutine once it is free; what clients, the clock and the
\* executor do is not forced.
GoroutineStep ==
    \/ Close
    \/ LaunchStart
    \/ LaunchLocked
    \/ ExpiryWatcherFires

FairSpec == Spec /\ WF_vars(GoroutineStep)

(***************************************************************************)
(* The evaluator on its own: an evaluator built from any list of host      *)
(* roles of the shapes below for either kind, and FulfilledFor called once *)
(* on any list of participants.                                            *)
(***************************************************************************)
MaxCount        == 2
MaxHostRoles    == 2
MaxParticipants == 2

VUnknown == "v6"

OnLeaves == {OnSessionLeaveTerminate, OnSessionLeavePause, ""}

\* The require policies: the filter of the tests, for one kind, with a count
\* and an on_leave that may be left unset.
RequirePolicies ==
    {[filter |-> ModFilter, kinds |-> <<k>>, count |-> n, onLeave |-> ol] :
        k \in {SSHSessionKind, KubernetesSessionKind}, n \in 0..MaxCount,
        ol \in OnLeaves}

\* The host roles: a role of any version without require policies, a v5
\* role with one require policy, a v4 role with one require policy.
EvalHostRoles ==
    {[name |-> HostRoleName, version |-> v, requires |-> <<>>, joins |-> <<>>] :
        v \in {V4, V5, VUnknown}}
    \cup {[name |-> HostRoleName, version |-> V5, requires |-> <<rp>>,
           joins |-> <<>>] : rp \in RequirePolicies}
    \cup {[name |-> HostRoleName, version |-> V4,
           requires |-> <<[filter |-> ModFilter, kinds |-> <<SSHSessionKind>>,
                           count |-> 1, onLeave |-> OnSessionLeaveTerminate]>>,
           joins |-> <<>>]}

\* The role of the participants of the tests: no join policy.
ParticipantRole ==
    [name |-> ModRoleName, version |-> V5, requires |-> <<>>, joins |-> <<>>]

\* A role with a join policy for the host role and the given kinds.
JoinRole(name, kinds) ==
    [name |-> name, version |-> V5, requires |-> <<>>,
     joins |-> <<[roles |-> <<HostRoleName>>, kinds |-> kinds,
                  modes |-> <<SessionModeratorMode, SessionPeerMode>>]>>]

OtherRoleName == <<"o">>

\* The participants: holding the filter's role without a join policy, with
\* a join policy for ssh sessions, with one for kubernetes sessions, or
\* holding another role with a join policy for ssh sessions.
EvalParticipants ==
    {[username |-> "participant", roles |-> <<ParticipantRole>>],
     [username |-> "bob", roles |-> <<JoinRole(ModRoleName, <<SSHSessionKind>>)>>],
     [username |-> "carol",
      roles |-> <<JoinRole(ModRoleName, <<KubernetesSessionKind>>)>>],
     [username |-> "dave", roles |-> <<JoinRole(OtherRoleName, <<SSHSessionKind>>)>>]}

SeqsUpTo(S, n) == UNION {[1..k -> S] : k \in 0..n}

EvalInit ==
    /\ newSession
    /\ hostOnLeave = OnSessionLeaveTerminate /\ ~tty /\ ~PresenceEnabled
    /\ \E roles \in SeqsUpTo(EvalHostRoles, MaxHostRoles) \ {<<>>},
          kind \in {SSHSessionKind, KubernetesSessionKind} :
             evaluator = NewSessionAccessEvaluator(roles, kind)
    /\ callParticipants \in SeqsUpTo(EvalParticipants, MaxParticipants)
    /\ fulfilled = <<>>
    /\ canJoin = <<>>
    /\ NewSessionTrackerService
    /\ newComponents

\* evaluator.FulfilledFor(participants) is called.
EvalFulfilledFor ==
    /\ fulfilled = <<>>
    /\ fulfilled' = <<FulfilledFor(evaluator, callParticipants)>>
    /\ UNCHANGED <<cfgVars, kickFailed, endEvents, state, parties,
                   partiesHistorical, started, mu, closeBodyRuns, closeCFired,
                   closeReq, closeNoop, published, trackerState, trackerParts,
                   trackerTermUpdates, ioReaders, ioWriters, ioOn, ioClosed,
                   recorder, sizeQueues, joinResult, partyMode, clientCloses,
                   ftWatch, waiters, launches, expWaiting, execInvoked,
                   expired, faults, evaluator, callParticipants, canJoin,
                   storeVars, compVars>>

\* The variables of the session, which the calls of the evaluator leave alone.
sessVars == <<cfgVars, kickFailed, endEvents, state, parties,
              partiesHistorical, started, mu, closeBodyRuns, closeCFired,
              closeReq, closeNoop, published, trackerState, trackerParts,
              trackerTermUpdates, ioReaders, ioWriters, ioOn, ioClosed,
              recorder, sizeQueues, joinResult, partyMode, clientCloses,
              ftWatch, waiters, launches, expWaiting, execInvoked,
              expired, faults>>

\* One more participant arrives and evaluator.FulfilledFor is called again
\* with the longer list, as canStart does at every join.
EvalFulfilledForMore ==
    /\ fulfilled # <<>>
    /\ Len(callParticipants) < MaxParticipants
    /\ \E ctx \in EvalParticipants :
          callParticipants' = Append(callParticipants, ctx)
    /\ fulfilled' = <<FulfilledFor(evaluator, callParticipants')>>
    /\ UNCHANGED <<sessVars, storeVars, compVars, evaluator, canJoin>>

\* A role with a join policy for the given roles entries and kinds.
JoinRoleFor(name, roles, kinds) ==
    [name |-> name, version |-> V5, requires |-> <<>>,
     joins |-> <<[roles |-> roles, kinds |-> kinds,
                  modes |-> <<SessionModeratorMode, SessionPeerMode>>]>>]

\* The users that ask to join: the participants above and users whose join
\* policy names the host role by the pattern *, by a pattern with ?, by a
\* literal that is not a host role's name, or holds for every kind.
JoinUsers ==
    EvalParticipants \cup
    {[username |-> "star",
      roles |-> <<JoinRoleFor(ModRoleName, <<<<"*">>>>, <<SSHSessionKind>>)>>],
     [username |-> "quest",
      roles |-> <<JoinRoleFor(ModRoleName, <<<<"h", "?">>>>, <<SSHSessionKind>>)>>],
     [username |-> "lit",
      roles |-> <<JoinRoleFor(ModRoleName, <<<<"h">>>>, <<SSHSessionKind>>)>>],
     [username |-> "wild",
      roles |-> <<JoinRoleFor(ModRoleName, <<HostRoleName>>, <<WildcardKind>>)>>]}

\* evaluator.CanJoin(user) is called.  CanJoin takes no participant list;
\* it is called in the runs that hold the empty one.
EvalCanJoin ==
    /\ fulfilled = <<>>
    /\ canJoin = <<>>
    /\ callParticipants = <<>>
    /\ \E user \in JoinUsers :
          canJoin' = <<[user |-> user, res |-> CanJoin(evaluator, user)]>>
    /\ UNCHANGED <<sessVars, storeVars, compVars, evaluator, callParticipants,
                   fulfilled>>

EvalNext ==
    \/ EvalFulfilledFor
    \/ EvalFulfilledForMore
    \/ EvalCanJoin

EvalSpec == EvalInit /\ [][EvalNext]_vars

(***************************************************************************)
(* The session tracker store.  Every call of a client is a sequence of     *)
(* backend calls (Get, CompareAndSwap, Create, Delete), each of them one   *)
(* step; the calls of different clients interleave.  An item is <<>> when  *)
(* its key is absent and <<record>> otherwise.                             *)
(***************************************************************************)
\* gcDelay, in minutes.
gcDelay == 5

\* The initiator of every tracker and the participant that is added and
\* removed by updates.
TrackerInitiator == "initiator"
TrackerGuest     == "guest"

\* The record CreateSessionTracker builds from the request.
NewSessionTracker(id, created, expires) ==
    [id |-> id, kind |-> KubernetesSessionKind, state |-> StatePending,
     created |-> created, expires |-> expires,
     parts |-> {TrackerInitiator}, lastActive |-> created]

\* backend.CompareAndSwap succeeds when the stored value is the expected one.
CompareAndSwapOk(stored, expected) == stored = expected

\* The updates of UpdateSessionTracker and the presence update.
Updates == {StateRunning, StateTerminated, "AddParticipant", "RemoveParticipant"}

ApplyUpdate(rec, upd, now) ==
    CASE upd = "presence"          -> [rec EXCEPT !.lastActive = now]
      [] upd = "AddParticipant"    -> [rec EXCEPT !.parts = @ \cup {TrackerGuest}]
      [] upd = "RemoveParticipant" -> [rec EXCEPT !.parts = @ \ {TrackerGuest}]
      [] OTHER                     -> [rec EXCEPT !.state = upd]

\* Client c may begin a call.
MayCall(c) == call[c].op = "idle" /\ ncalls[c] < MaxCalls

\* The call of client c returns err.
Return(c, err) ==
    /\ call' = [call EXCEPT ![c] = IdleCall]
    /\ ret' = [ret EXCEPT ![c] = [op |-> call[c].op, err |-> err,
                                  retried |-> call[c].retried]]

Goto(c, pc) == call' = [call EXCEPT ![c].pc = pc]

\* The variables no call of the store writes.
notStoreVars == <<sessVars, evalVars, compVars>>

\* CreateSessionTracker begins: the record is built and addSessionToList
\* reads the list key.
CreateListGet(c) ==
    /\ MayCall(c)
    /\ \E id \in Ids, life \in {1, 1440} :
          call' = [call EXCEPT ![c] =
                      [IdleCall EXCEPT !.op = "Create", !.id = id,
                                       !.pc = "listCAS", !.now = clock,
                                       !.expires = clock + life,
                                       !.list = bkList]]
    /\ ncalls' = [ncalls EXCEPT ![c] = @ + 1]
    /\ UNCHANGED <<notStoreVars, bkList, bkItems, clock, ret>>

\* addSessionToList writes the list with the id appended; its CompareAndSwap
\* error is returned to the caller of CreateSessionTracker.
CreateListCAS(c) ==
    /\ call[c].op = "Create" /\ call[c].pc = "listCAS"
    /\ IF CompareAndSwapOk(bkList, call[c].list)
       THEN /\ bkList' = Append(bkList, call[c].id)
            /\ Goto(c, "create")
            /\ UNCHANGED ret
       ELSE /\ Return(c, "CompareFailed")
            /\ UNCHANGED bkList
    /\ UNCHANGED <<notStoreVars, bkItems, clock, ncalls>>

\* bk.Create of the record key: it fails when the key exists.
CreateRecord(c) ==
    /\ call[c].op = "Create" /\ call[c].pc = "create"
    /\ IF bkItems[call[c].id] = <<>>
       THEN /\ bkItems' = [bkItems EXCEPT ![call[c].id] =
                   <<NewSessionTracker(call[c].id, call[c].now,
                                       call[c].expires)>>]
            /\ Return(c, "ok")
       ELSE /\ Return(c, "AlreadyExists")
            /\ UNCHANGED bkItems
    /\ UNCHANGED <<notStoreVars, bkList, clock, ncalls>>

\* A variant of the expected value: whatever the key holds.
expectedCurrent(c) == bkItems[call[c].id]

\* The expected value of the CompareAndSwap of an update: the item the call
\* read (*sessionItem).
expected(c) == call[c].item

\* A variant of the retry that repeats the CompareAndSwap with the record
\* it read before.
retryWithoutGet(c) == [call[c] EXCEPT !.pc = "cas", !.retried = TRUE]

\* After a failed CompareAndSwap the function sleeps and calls itself: the
\* record is read again.
retry(c) == [call[c] EXCEPT !.pc = "get", !.retried = TRUE]

\* UpdatePresence or UpdateSessionTracker begins, or starts again after a
\* failed CompareAndSwap: the record key is read.
UpdateGet(c) ==
    /\ \/ /\ MayCall(c)
          /\ \E id \in Ids, upd \in Updates \cup {"presence"} :
                IF bkItems[id] = <<>>
                THEN /\ ret' = [ret EXCEPT ![c] =
                            [op |-> IF upd = "presence" THEN "UpdatePresence"
                                    ELSE "UpdateSessionTracker",
                             err |-> "NotFound", retried |-> FALSE]]
                     /\ UNCHANGED call
                ELSE /\ call' = [call EXCEPT ![c] =
                            [IdleCall EXCEPT
                                !.op = IF upd = "presence" THEN "UpdatePresence"
                                       ELSE "UpdateSessionTracker",
                                !.id = id, !.pc = "cas", !.upd = upd,
                                !.now = clock, !.item = bkItems[id]]]
                     /\ UNCHANGED ret
          /\ ncalls' = [ncalls EXCEPT ![c] = @ + 1]
       \/ /\ call[c].op \in {"UpdatePresence", "UpdateSessionTracker"}
          /\ call[c].pc = "get"
          /\ IF bkItems[call[c].id] = <<>>
             THEN Return(c, "NotFound")
             ELSE /\ call' = [call EXCEPT ![c].pc = "cas",
                                          ![c].now = clock,
                                          ![c].item = bkItems[call[c].id]]
                  /\ UNCHANGED ret
          /\ UNCHANGED ncalls
    /\ UNCHANGED <<notStoreVars, bkList, bkItems, clock>>

\* The CompareAndSwap of the updated record; on CompareFailed the call
\* sleeps and starts again.
UpdateCAS(c) ==
    /\ call[c].op \in {"UpdatePresence", "UpdateSessionTracker"}
    /\ call[c].pc = "cas"
    /\ IF CompareAndSwapOk(bkItems[call[c].id], expected(c))
       THEN /\ bkItems' = [bkItems EXCEPT ![call[c].id] =
                   <<ApplyUpdate(call[c].item[1], call[c].upd, call[c].now)>>]
            /\ Return(c, "ok")
       ELSE /\ call' = [call EXCEPT ![c] = retry(c)]
            /\ UNCHANGED <<bkItems, ret>>
    /\ UNCHANGED <<notStoreVars, bkList, clock, ncalls>>

\* The list without its i-th entry: append(list[:i], list[i+1:]...).
RemoveAt(list, i) ==
    [j \in 1..(Len(list) - 1) |-> IF j < i THEN list[j] ELSE list[j + 1]]

\* The two tests of removeSessionFromList on a loaded record.
doGC(rec, now) == rec.created + gcDelay < now /\ rec.state = StateTerminated
isStale(rec, now) == rec.expires < now

\* The entries of the list from position i on whose record, at this moment,
\* is terminated and older than gcDelay, or expired.  The code does not
\* compute this set; the call keeps it to state what a scan left behind.
GarbageFrom(list, i) ==
    {list[j] : j \in {k \in i..Len(list) :
                        /\ bkItems[list[k]] # <<>>
                        /\ \/ doGC(bkItems[list[k]][1], clock)
                           \/ isStale(bkItems[list[k]][1], clock)}}

\* RemoveSessionTracker begins, or removeSessionFromList starts again after
\* a failed CompareAndSwap: the list key is read.
RemoveListGet(c) ==
    /\ \/ /\ MayCall(c)
          /\ \E id \in Ids :
                call' = [call EXCEPT ![c] =
                            [IdleCall EXCEPT !.op = "Remove", !.id = id,
                                             !.pc = "load", !.list = bkList,
                                             !.i = 1]]
          /\ ncalls' = [ncalls EXCEPT ![c] = @ + 1]
       \/ /\ call[c].op = "Remove" /\ call[c].pc = "listGet"
          /\ call' = [call EXCEPT ![c].pc = "load", ![c].list = bkList,
                                  ![c].i = 1]
          /\ UNCHANGED ncalls
    /\ UNCHANGED <<notStoreVars, bkList, bkItems, clock, ret>>

\* One turn of the loop of removeSessionFromList: the record of the i-th
\* entry is loaded; the first entry that is the wanted one, or terminated
\* and older than gcDelay, or expired, is cut out of the list and the loop
\* ends.
RemoveLoad(c) ==
    /\ call[c].op = "Remove" /\ call[c].pc = "load"
    /\ LET list == call[c].list
           i    == call[c].i
       IN  IF i > Len(list)
           THEN Return(c, "NotFound")
           ELSE IF bkItems[list[i]] = <<>>
           THEN Return(c, "NotFound")
           ELSE LET rec == bkItems[list[i]][1]
                IN  IF \/ list[i] = call[c].id
                       \/ doGC(rec, clock)
                       \/ isStale(rec, clock)
                    THEN /\ call' = [call EXCEPT
                                ![c].newList = RemoveAt(list, i),
                                ![c].pc = "listCAS",
                                ![c].garbage = GarbageFrom(list, i)]
                         /\ UNCHANGED ret
                    ELSE /\ call' = [call EXCEPT ![c].i = i + 1]
                         /\ UNCHANGED ret
    /\ UNCHANGED <<notStoreVars, bkList, bkItems, clock, ncalls>>

\* The CompareAndSwap of the shortened list; on CompareFailed
\* removeSessionFromList sleeps and starts again.
RemoveListCAS(c) ==
    /\ call[c].op = "Remove" /\ call[c].pc = "listCAS"
    /\ IF CompareAndSwapOk(bkList, call[c].list)
       THEN /\ bkList' = call[c].newList
            /\ Goto(c, "delete")
       ELSE /\ call' = [call EXCEPT ![c].pc = "listGet", ![c].retried = TRUE]
            /\ UNCHANGED bkList
    /\ UNCHANGED <<notStoreVars, bkItems, clock, ret, ncalls>>

\* bk.Delete of the record key of the wanted session.
RemoveDelete(c) ==
    /\ call[c].op = "Remove" /\ call[c].pc = "delete"
    /\ IF bkItems[call[c].id] = <<>>
       THEN /\ Return(c, "NotFound")
            /\ UNCHANGED bkItems
       ELSE /\ bkItems' = [bkItems EXCEPT ![call[c].id] = <<>>]
            /\ Return(c, "ok")
    /\ UNCHANGED <<notStoreVars, bkList, clock, ncalls>>

\* Time passes: gcDelay minutes, or a minute more.
Tick ==
    /\ \E d \in {gcDelay, gcDelay + 1} :
          /\ clock + d <= MaxClock
          /\ clock' = clock + d
    /\ UNCHANGED <<notStoreVars, bkList, bkItems, call, ret, ncalls>>

\* GetSessionTracker: the record of the id, or NotFound.
GetSessionTracker(items, id) ==
    IF items[id] = <<>> THEN [err |-> "NotFound", session |-> <<>>]
    ELSE [err |-> "ok", session |-> items[id]]

\* GetActiveSessionTrackers: the records of the ids of the list, in the
\* order of the list; an id without a record fails the whole call.
GetActiveSessionTrackers(list, items) ==
    IF \E j \in 1..Len(list) : items[list[j]] = <<>>
    THEN [err |-> "NotFound", sessions |-> <<>>]
    ELSE [err |-> "ok",
          sessions |-> [j \in 1..Len(list) |-> items[list[j]][1]]]

\* The tracker store on its own: the session and the evaluator stay as
\* constructed.
StoreInit ==
    /\ newSession
    /\ hostOnLeave = OnSessionLeaveTerminate /\ ~tty /\ ~PresenceEnabled
    /\ evaluator = accessEvaluator
    /\ callParticipants = <<>>
    /\ fulfilled = <<>>
    /\ canJoin = <<>>
    /\ NewSessionTrackerService
    /\ newComponents

StoreNext ==
    \/ \E c \in Clients : CreateListGet(c)
    \/ \E c \in Clients : CreateListCAS(c)
    \/ \E c \in Clients : CreateRecord(c)
    \/ \E c \in Clients : UpdateGet(c)
    \/ \E c \in Clients : UpdateCAS(c)
    \/ \E c \in Clients : RemoveListGet(c)
    \/ \E c \in Clients : RemoveLoad(c)
    \/ \E c \in Clients : RemoveListCAS(c)
    \/ \E c \in Clients : RemoveDelete(c)
    \/ Tick

StoreSpec == StoreInit /\ [][StoreNext]_vars

(***************************************************************************)
(* multiResizeQueue: the resize channels of the parties merged into one    *)
(* queue.  add and remove rebuild r.cases from r.queues, so the cases are  *)
(* the registered channels.                                                *)
(***************************************************************************)
notQueueVars == <<sessVars, evalVars, storeVars, pipeVars, waiter>>

\* multiResizeQueue.add.
add(id) ==
    /\ id \notin queues
    /\ queues' = queues \cup {id}
    /\ UNCHANGED <<notQueueVars, chClosed, chPending, nextResults>>

\* multiResizeQueue.remove.
remove(id) ==
    /\ id \in queues
    /\ queues' = queues \ {id}
    /\ UNCHANGED <<notQueueVars, chClosed, chPending, nextResults>>

\* A client sends a terminal size on its channel.
SendSize(id) ==
    /\ id \notin chClosed
    /\ chPending[id] < MaxSizes
    /\ chPending' = [chPending EXCEPT ![id] = @ + 1]
    /\ UNCHANGED <<notQueueVars, queues, chClosed, nextResults>>

\* A client's channel is closed.
CloseChannel(id) ==
    /\ id \notin chClosed
    /\ chPending[id] = 0
    /\ chClosed' = chClosed \cup {id}
    /\ UNCHANGED <<notQueueVars, queues, chPending, nextResults>>

\* The cases reflect.Select can take: a receive from a registered channel
\* with a size waiting, or from a registered channel that is closed.
ReadyCases == {id \in queues : chPending[id] > 0 \/ id \in chClosed}

\* What a receive from the channel yields: a size, or the zero value with
\* ok = false when the channel is closed.
Recv(id) ==
    IF chPending[id] > 0 THEN [ok |-> TRUE, from |-> id]
    ELSE [ok |-> FALSE, from |-> id]

\* Next: nil when the receive reports a closed channel, the size otherwise.
NextResult(id) == IF ~Recv(id).ok THEN "nil" ELSE "size"

\* multiResizeQueue.Next: reflect.Select blocks until a case is ready and
\* takes one of the ready cases.
QueueNext ==
    /\ Len(nextResults) < MaxNexts
    /\ \E id \in ReadyCases :
          /\ nextResults' = Append(nextResults,
                               [res |-> NextResult(id), from |-> id])
          /\ chPending' = IF Recv(id).ok
                          THEN [chPending EXCEPT ![id] = @ - 1]
                          ELSE chPending
    /\ UNCHANGED <<notQueueVars, queues, chClosed>>

QueueInit ==
    /\ newSession
    /\ hostOnLeave = OnSessionLeaveTerminate /\ ~tty /\ ~PresenceEnabled
    /\ evaluator = accessEvaluator
    /\ callParticipants = <<>>
    /\ fulfilled = <<>>
    /\ canJoin = <<>>
    /\ NewSessionTrackerService
    /\ newComponents

QueueSpecNext ==
    \/ \E id \in QueueIds : add(id)
    \/ \E id \in QueueIds : remove(id)
    \/ \E id \in QueueIds : SendSize(id)
    \/ \E id \in QueueIds : CloseChannel(id)
    \/ QueueNext

QueueSpec == QueueInit /\ [][QueueSpecNext]_vars

(***************************************************************************)
(* KubeSession.pipeInOut: one goroutine copies the remote stream to the    *)
(* terminal, the other reads the terminal's stdin byte by byte.            *)
(***************************************************************************)
notPipeVars == <<sessVars, evalVars, storeVars, queueVars, waiter>>

\* The bytes the stdin goroutine acts on: Ctrl-C (0x03) and the byte 't'.
Intercepted == {CtrlC, "t"}

\* One turn of io.Copy(s.term.Stdout(), s.stream): a byte of the stream is
\* written to stdout; at the end of the stream the goroutine cancels the
\* session and ends.
CopyStep ==
    /\ copyLoop = "running"
    /\ IF streamIn = <<>>
       THEN /\ copyLoop' = "done"
            /\ cancelled' = TRUE
            /\ UNCHANGED <<streamIn, termStdout>>
       ELSE /\ termStdout' = Append(termStdout, Head(streamIn))
            /\ streamIn' = Tail(streamIn)
            /\ UNCHANGED <<copyLoop, cancelled>>
    /\ UNCHANGED <<notPipeVars, termStdin, streamOut, stdinLoop,
                   forceTerminateSent>>

\* One turn of the loop over s.term.Stdin().Read(buf): EOF and Ctrl-C end
\* the loop, 't' sends the force-terminate request and ends it; after any
\* other byte the loop reads the next one.
StdinStep ==
    /\ stdinLoop = "running"
    /\ IF termStdin = <<>>
       THEN /\ stdinLoop' = "done"
            /\ cancelled' = TRUE
            /\ UNCHANGED <<termStdin, forceTerminateSent>>
       ELSE /\ termStdin' = Tail(termStdin)
            /\ stdinLoop' = IF Head(termStdin) \in Intercepted THEN "done"
                            ELSE "running"
            /\ cancelled' = (cancelled \/ Head(termStdin) \in Intercepted)
            /\ forceTerminateSent' =
                  (forceTerminateSent \/ Head(termStdin) = "t")
    /\ UNCHANGED <<notPipeVars, termStdout, streamIn, streamOut, copyLoop>>

PipeInit ==
    /\ newSession
    /\ hostOnLeave = OnSessionLeaveTerminate /\ ~tty /\ ~PresenceEnabled
    /\ evaluator = accessEvaluator
    /\ callParticipants = <<>>
    /\ fulfilled = <<>>
    /\ canJoin = <<>>
    /\ NewSessionTrackerService
    /\ newMultiResizeQueue
    /\ waiter = [w \in Waiters |-> [pc |-> "none", next |-> 0]]
    /\ \E input \in BytesUpTo(StdinBytes, MaxInput),
          remote \in BytesUpTo(RemoteBytes, MaxRemote) :
             pipeInOut(input, remote)

PipeNext == CopyStep \/ StdinStep

PipeSpec == PipeInit /\ [][PipeNext]_vars

(***************************************************************************)
(* The pause of a session.  The access evaluator of this repository does   *)
(* not ask a Kubernetes session for more participants, so canStart is      *)
(* never false in the session above.  The specification below takes the    *)
(* verdict "not fulfilled" of canStart in leave as an input and follows    *)
(* the goroutine leave then spawns, waitOnAccess, against join and Close.  *)
(***************************************************************************)

\* leave of a party that is not the initiator and does not empty the
\* roster, canStart answering "no" with the option to pause: the party is
\* removed and closed, the state is Pending, Pending is submitted, and
\* waitOnAccess starts in a goroutine (the first slot not used yet).
PauseLeave(p) ==
    /\ mu = "free"
    /\ ~leaveIsNoop(SessionView, p)
    /\ ~leaveCloses(parties \ {p}, p)
    /\ hostOnLeave = OnSessionLeavePause
    /\ ApplyView([SessionView EXCEPT
                    !.parties = @ \ {p}, !.sizeQueues = @ \ {p},
                    !.ioReaders = @ \ {p}, !.ioWriters = @ \ {p},
                    !.trackerParts = @ \ {p},
                    !.clientCloses = partyClose(@, p),
                    !.state = StatePending,
                    !.published = Append(@, StatePending),
                    !.waiters = @ + 1])
    /\ \E w \in Waiters :
          /\ waiter[w].pc = "none"
          /\ \A u \in Waiters : u < w => waiter[u].pc # "none"
          /\ waiter' = [waiter EXCEPT ![w] = [pc |-> "off", next |-> 0]]
    /\ UNCHANGED <<queueVars, pipeVars, storeVars, evalVars, cfgVars,
                   kickFailed, endEvents, partiesHistorical, started, mu,
                   closeBodyRuns, closeCFired, closeNoop, trackerState,
                   trackerTermUpdates, ioOn, ioClosed, recorder, joinResult,
                   partyMode, ftWatch, launches, expWaiting, execInvoked,
                   expired>>

\* What the steps of waitOnAccess leave alone.
waiterKeeps == <<queueVars, pipeVars, storeVars, evalVars, cfgVars,
                 kickFailed, endEvents, state, parties, partiesHistorical,
                 started, mu, closeBodyRuns, closeCFired, closeReq, closeNoop,
                 published, trackerState, trackerParts, trackerTermUpdates,
                 ioReaders, ioWriters, ioClosed, recorder, sizeQueues,
                 joinResult, partyMode, clientCloses, ftWatch, waiters,
                 launches, expWaiting, execInvoked, expired, faults>>

\* waitOnAccess, first statement: s.io.Off().
WaiterOff(w) ==
    /\ waiter[w].pc = "off"
    /\ ioOn' = FALSE
    /\ waiter' = [waiter EXCEPT ![w].pc = "register"]
    /\ UNCHANGED waiterKeeps

\* s.stateUpdate.Register(c).  The channel receives the values submitted
\* from now on and, when the broadcaster has not handed out the last
\* submitted value yet, that value as well.  After Close has closed the
\* broadcaster the registration is a send on a closed channel.
WaiterRegister(w) ==
    /\ waiter[w].pc = "register"
    /\ IF closeOnceDone
       THEN waiter' = [waiter EXCEPT ![w].pc = "registerAfterClose"]
       ELSE \E n \in {Len(published) + 1} \cup
                      (IF published = <<>> THEN {} ELSE {Len(published)}) :
               waiter' = [waiter EXCEPT ![w] = [pc |-> "wait", next |-> n]]
    /\ UNCHANGED <<ioOn, waiterKeeps>>

\* One round of the loop of waitOnAccess: the next state is received;
\* Pending continues, Terminated returns, Running leaves the loop and
\* s.io.On() is called.
WaiterReceive(w) ==
    /\ waiter[w].pc = "wait"
    /\ waiter[w].next <= Len(published)
    /\ LET actualState == published[waiter[w].next]
       IN  /\ waiter' = [waiter EXCEPT ![w] =
                           IF actualState = StatePending
                           THEN [pc |-> "wait", next |-> @.next + 1]
                           ELSE [pc |-> "done", next |-> @.next]]
           /\ ioOn' = IF actualState = StateRunning THEN TRUE ELSE ioOn
    /\ UNCHANGED waiterKeeps

\* The user of a party that has left connects again to the paused session:
\* the next join makes a new party for the client, which takes the place
\* of the one that left.
Reconnect(p) ==
    /\ p \notin parties
    /\ joinResult[p] # "none"
    /\ state = StatePending /\ started /\ waiters > 0
    /\ joinResult' = [joinResult EXCEPT ![p] = "none"]
    /\ partyMode' = [partyMode EXCEPT ![p] = "none"]
    /\ clientCloses' = [clientCloses EXCEPT ![p] = 0]
    /\ UNCHANGED <<compVars, storeVars, evalVars, cfgVars, kickFailed,
                   endEvents, state, parties, partiesHistorical, started, mu,
                   closeBodyRuns, closeCFired, closeReq, closeNoop, published,
                   trackerState, trackerParts, trackerTermUpdates, ioReaders,
                   ioWriters, ioOn, ioClosed, recorder, sizeQueues, ftWatch,
                   waiters, launches, expWaiting, execInvoked, expired,
                   faults>>

\* A session that pauses when a required participant leaves.
PauseInit ==
    /\ newSession
    /\ hostOnLeave = OnSessionLeavePause /\ tty /\ ~PresenceEnabled
    /\ evaluator = accessEvaluator
    /\ callParticipants = <<>>
    /\ fulfilled = <<>>
    /\ canJoin = <<>>
    /\ NewSessionTrackerService
    /\ newComponents

PauseNext ==
    \/ \E p \in Parties : Join(p)
    \/ \E p \in Parties : Leave(p)
    \/ \E p \in Parties : PauseLeave(p)
    \/ \E p \in Parties : Reconnect(p)
    \/ \E w \in Waiters : WaiterOff(w)
    \/ \E w \in Waiters : WaiterRegister(w)
    \/ \E w \in Waiters : WaiterReceive(w)
    \/ Close
    \/ LaunchStart
    \/ LaunchLocked
    \/ ExecutorReturns

PauseSpec == PauseInit /\ [][PauseNext]_vars

(***************************************************************************)
(* Properties.                                                             *)
(***************************************************************************)

\* C1: once the in-memory state is Terminated, no step (Join, Leave, launch,
\* presence tick, Close) changes it to Pending or Running.
C1_TerminatedIsFinal ==
    [][state = StateTerminated => state' = StateTerminated]_vars

\* A Terminated session that a party has joined after Close ran (its client
\* is still open) and that launch has started.
C1_JoinedAfterTerminated ==
    /\ state = StateTerminated
    /\ started
    /\ \E p \in parties : joinResult[p] = "ok" /\ clientCloses[p] = 0

\* C2: when the expiry time of a launched, not yet closed session passes,
\* the expiry watcher's call to Close completes: the watcher is never inside
\* Close waiting for s.mu while it holds s.mu itself.
C2_ExpiryWatcherCloseCompletes == mu # "expiry"

\* C3: launch, and therefore the executor, is started at most once whatever
\* the interleaving of the Join calls.
C3_LaunchAtMostOnce ==
    /\ launches["start"] + launches["lock"] + launches["stream"]
         + launches["closeBlocked"] + launches["done"] <= 1
    /\ execInvoked <= 1

\* C4: a Join by a party of another user whose requested mode is not in the
\* list CanJoin returns fails with access denied and changes neither roster,
\* nor the tracker record, nor the I/O registrations, nor the state.
C4_DeniedJoinLeavesSessionUnaffected ==
    [][\A p \in Parties :
          (/\ joinResult[p] = "none"
           /\ joinResult'[p] # "none"
           /\ PartyUser(p) # PartyUser(initiator)
           /\ joinResult'[p] # "RolesErr"
           /\ LET r == CanJoin(accessEvaluator,
                               [username |-> PartyUser(p), roles |-> PartyRoles(p)])
              IN  r.err = NoErr /\ ~SliceContainsMode(r.modes, partyMode'[p]))
          => /\ joinResult'[p] = "AccessDenied"
             /\ UNCHANGED <<parties, partiesHistorical, trackerParts, trackerState,
                            ioReaders, ioWriters, sizeQueues, state, published,
                            started, launches, ftWatch>>]_vars

\* A party of another user has been refused by Join.
C4_DeniedJoinHappened ==
    \E p \in Parties : /\ PartyUser(p) # PartyUser(initiator)
                       /\ joinResult[p] = "AccessDenied"

\* C5: in a kubernetes session with v5 host roles, a joiner of another user
\* holding a role with a join policy whose kinds contain kubernetes, whose
\* roles match a host role name and whose modes contain the requested mode
\* is admitted by Join.
C5_MatchingJoinPolicyAdmits ==
    \A p \in Parties :
        (/\ PartyUser(p) # PartyUser(initiator)
         /\ joinResult[p] # "none"
         /\ \E i \in 1..Len(PartyRoles(p)) :
              \E j \in 1..Len(PartyRoles(p)[i].joins) :
                 LET allow == PartyRoles(p)[i].joins[j]
                 IN  /\ \/ contains(allow.kinds, KubernetesSessionKind)
                        \/ contains(allow.kinds, WildcardKind)
                     /\ \E h \in 1..Len(accessEvaluator.roles) :
                           contains(allow.roles, accessEvaluator.roles[h].name)
                     /\ contains(allow.modes, partyMode[p]))
        => joinResult[p] \notin {"AccessDenied"}

\* The participants a roster gives to the evaluator, and whether they satisfy
\* the require policy of the initiator's role: at least count parties of
\* another user holding the moderator role.
RosterFulfils(ps) ==
    Cardinality({q \in ps : /\ PartyUser(q) # PartyUser(initiator)
                            /\ \E i \in 1..Len(PartyRoles(q)) :
                                  PartyRoles(q)[i].name = ModRoleName})
        >= HostRole(hostOnLeave).requires[1].count

\* A step in which leave removes the non-initiator party p from a running
\* session without failing, other parties remain, and those that remain do
\* not fulfil the require policy.
LeaveUnfulfils(p) ==
    /\ state = StateRunning
    /\ p # initiator
    /\ p \in parties
    /\ parties' = parties \ {p}
    /\ parties' # {}
    /\ faults' = faults
    /\ ~RosterFulfils(parties')

\* C6: when such a leave happens under a require policy whose on_leave is
\* terminate, Leave schedules Close.
C6_UnfulfilledLeaveTerminates ==
    [][\A p \in Parties :
          LeaveUnfulfils(p) /\ hostOnLeave = OnSessionLeaveTerminate
          => closeReq']_vars

\* C7: when such a leave happens under a require policy whose on_leave is
\* pause, the state becomes Pending and Pending is published.
C7_UnfulfilledLeavePauses ==
    [][\A p \in Parties :
          LeaveUnfulfils(p) /\ hostOnLeave = OnSessionLeavePause
          => /\ state' = StatePending
             /\ published' = Append(published, StatePending)]_vars

\* C8: whenever Leave removes a party from a session that is not Terminated
\* and afterwards the live roster is empty or the removed party is the
\* initiator, Close is scheduled.
C8_LastLeaveSchedulesClose ==
    [][\A p \in Parties :
          (/\ state # StateTerminated
           /\ p \in parties
           /\ parties' = parties \ {p}
           /\ parties' = {} \/ p = initiator)
          => closeReq']_vars

\* A joined peer or moderator whose force-terminate signal has been received
\* by its watcher while the session was not closed.
ForceTerminateReceived(p) ==
    /\ joinResult[p] = "ok"
    /\ partyMode[p] \in {SessionPeerMode, SessionModeratorMode}
    /\ ClientCanForceTerminate(p)
    /\ p \notin ftWatch
    /\ closeCFired = 0

\* C9: a force-terminate signal from a joined peer or moderator, received
\* while the session is not closed, causes a Close that completes: while
\* that Close is outstanding, s.mu is not held by an expiry watcher that
\* will never release it.
C9_ForceTerminateCloses ==
    \A p \in Parties : ForceTerminateReceived(p) => mu # "expiry"

\* C10: the close body runs at most once however many Close calls are made
\* (one Terminated publication, one tracker update, one close of s.closeC,
\* each client closed once), and a Close call made after it changes nothing.
C10_CloseIdempotent ==
    /\ [](/\ closeBodyRuns <= 1
          /\ closeCFired = closeBodyRuns
          /\ trackerTermUpdates = closeBodyRuns
          /\ Cardinality({i \in 1..Len(published) :
                             published[i] = StateTerminated}) = closeBodyRuns
          /\ \A p \in Parties : clientCloses[p] <= 1
          /\ closeNoop => closeBodyRuns = 1)
    /\ [][closeBodyRuns = 1 /\ closeReq /\ ~closeReq'
          => UNCHANGED <<state, published, trackerState, trackerTermUpdates,
                         closeCFired, clientCloses, ioClosed, recorder,
                         closeBodyRuns, parties>>]_vars

\* The body has run and a later Close call has returned.
C10_LaterCloseReturned == closeBodyRuns = 1 /\ closeNoop

C12_FailedEjectionClosesSession ==
    kickFailed => (closeReq \/ closeBodyRuns > 0)

\* C13: the launch makes the session Running: whenever the executor is
\* streaming and the session has been neither paused by a Leave nor closed,
\* the state in memory is Running and Running has been published.
C13_StreamingSessionIsRunning ==
    (launches["stream"] > 0 /\ waiters = 0 /\ closeBodyRuns = 0) =>
        /\ state = StateRunning
        /\ \E i \in 1..Len(published) : published[i] = StateRunning

\* C14: in every state of a session after its creation, the states before
\* the initiator's Join included, the initiator is in partiesHistorical.
C14_InitiatorInPartiesHistorical == initiator \in partiesHistorical

\* The other half of C14: no step removes a party from partiesHistorical.
C14_PartiesHistoricalGrows ==
    [][partiesHistorical \subseteq partiesHistorical']_vars

\* A step in which party p joins a Pending session without any failure and
\* the roster with p in it does not fulfil the require policy.
JoinUnfulfilled(p) ==
    /\ state = StatePending
    /\ joinResult[p] = "none"
    /\ joinResult'[p] # "none"
    /\ p \in parties'
    /\ faults' = faults
    /\ ~RosterFulfils(parties')

\* C15: such a Join does not start the launch and leaves the state Pending;
\* for a non-interactive session it returns access denied, for an
\* interactive one it succeeds.
C15_UnfulfilledJoinDoesNotLaunch ==
    [][\A p \in Parties :
          JoinUnfulfilled(p)
          => /\ launches' = launches
             /\ state' = StatePending
             /\ joinResult'[p] = IF tty THEN "ok" ELSE "AccessDeniedLaunch"]_vars

\* C16: once a launch of the session has ended, by the return of the
\* executor or by a failure of launch, the end-of-session audit events have
\* been emitted exactly once: SessionData then SessionEnd for an interactive
\* session, Exec for a non-interactive one.
C16_EndEventsEmittedOnce ==
    launches["done"] + launches["closeBlocked"] > 0 =>
        endEvents = IF tty THEN <<"SessionData", "SessionEnd">> ELSE <<"Exec">>

\* The roles of the evaluator's host all have version v.
HostVersionsIn(vs) ==
    \A i \in 1..Len(evaluator.roles) : evaluator.roles[i].version \in vs

\* A participant counts for a require policy when it holds the role the
\* filter names and one of its roles has a join policy for the session kind
\* that names a host role.
CountsFor(ctx, rp) ==
    /\ \E i \in 1..Len(ctx.roles) : ctx.roles[i].name = rp.filter.lit
    /\ \E i \in 1..Len(ctx.roles) : \E j \in 1..Len(ctx.roles[i].joins) :
          LET allow == ctx.roles[i].joins[j]
          IN  /\ \/ contains(allow.kinds, evaluator.kind)
                 \/ contains(allow.kinds, WildcardKind)
              /\ \E h \in 1..Len(evaluator.roles) :
                    contains(allow.roles, evaluator.roles[h].name)

MatchCount(rp) ==
    Cardinality({i \in 1..Len(callParticipants) :
                    CountsFor(callParticipants[i], rp)})

\* C17: for kind kubernetes FulfilledFor evaluates the require policies of
\* the host roles: with v5 host roles that carry a require policy for
\* kubernetes sessions with a count of at least 1, and fewer counting
\* participants than the count of every require policy, it returns not
\* fulfilled.
C17_KubernetesEvaluatesRequirePolicies ==
    (/\ fulfilled # <<>>
     /\ evaluator.kind = KubernetesSessionKind
     /\ HostVersionsIn({V5})
     /\ \E i \in 1..Len(evaluator.requires) :
           /\ contains(evaluator.requires[i].kinds, KubernetesSessionKind)
           /\ evaluator.requires[i].count >= 1
     /\ \A i \in 1..Len(evaluator.requires) :
           MatchCount(evaluator.requires[i]) < evaluator.requires[i].count)
    => ~fulfilled[1].yes

\* C18: for kind ssh and host roles of which at least one, at any position,
\* has a version up to v4 and the others have v5, FulfilledFor returns
\* fulfilled with empty options and no error for every participant list.
C18_LegacyRoleAnywhereDisablesControls ==
    (/\ fulfilled # <<>>
     /\ evaluator.kind = SSHSessionKind
     /\ HostVersionsIn({V4, V5})
     /\ \E i \in 1..Len(evaluator.roles) : evaluator.roles[i].version = V4)
    => fulfilled[1] = [yes |-> TRUE, TerminateOnLeave |-> FALSE, err |-> NoErr]

\* C19: for kind ssh and v5 host roles, when a require policy for ssh
\* sessions has count 0 and on_leave terminate or pause, FulfilledFor of the
\* empty participant list returns fulfilled.
C19_CountZeroFulfilledByNobody ==
    (/\ fulfilled # <<>>
     /\ evaluator.kind = SSHSessionKind
     /\ HostVersionsIn({V5})
     /\ callParticipants = <<>>
     /\ \E i \in 1..Len(evaluator.requires) :
           /\ evaluator.requires[i].count = 0
           /\ contains(evaluator.requires[i].kinds, SSHSessionKind)
           /\ evaluator.requires[i].onLeave
                 \in {OnSessionLeaveTerminate, OnSessionLeavePause})
    => fulfilled[1].yes

\* C20: for kind ssh and a single v5 host role whose only require policy is
\* for ssh sessions, has count N >= 1, the filter contains(participant.roles,
\* R) and no on_leave, FulfilledFor of N participants that each hold the
\* role R, a role without join policies, returns fulfilled and no error.
C20_TestParticipantsFulfil ==
    (/\ fulfilled # <<>>
     /\ evaluator.kind = SSHSessionKind
     /\ Len(evaluator.roles) = 1
     /\ HostVersionsIn({V5})
     /\ Len(evaluator.requires) = 1
     /\ evaluator.requires[1].kinds = <<SSHSessionKind>>
     /\ evaluator.requires[1].onLeave = ""
     /\ evaluator.requires[1].count >= 1
     /\ Len(callParticipants) = evaluator.requires[1].count
     /\ \A i \in 1..Len(callParticipants) :
           callParticipants[i].roles = <<ParticipantRole>>)
    => fulfilled[1].yes /\ fulfilled[1].err = NoErr

C22_FulfilledForMonotone ==
    [][(/\ fulfilled # <<>> /\ fulfilled[1].yes
        /\ fulfilled' # <<>>
        /\ evaluator' = evaluator
        /\ \E ctx \in EvalParticipants :
              callParticipants' = Append(callParticipants, ctx))
       => fulfilled'[1].yes]_vars

\* Whether some join policy of the user is for the evaluator's kind (or for
\* every kind) and has a roles entry that, as a pattern, matches the name of
\* a host role.
HoldsMatchingJoinPolicy(user) ==
    \E i \in 1..Len(user.roles) : \E j \in 1..Len(user.roles[i].joins) :
        LET allow == user.roles[i].joins[j]
        IN  /\ \/ contains(allow.kinds, evaluator.kind)
               \/ contains(allow.kinds, WildcardKind)
            /\ \E k \in 1..Len(allow.roles) : \E h \in 1..Len(evaluator.roles) :
                  GlobMatch(allow.roles[k], evaluator.roles[h].name)

\* C23: for kind ssh and v5 host roles, CanJoin returns a mode list that is
\* not empty exactly when the user holds a matching join policy.
C23_CanJoinIffMatchingPolicy ==
    (/\ canJoin # <<>>
     /\ evaluator.kind = SSHSessionKind
     /\ HostVersionsIn({V5}))
    => /\ canJoin[1].res.err = NoErr
       /\ canJoin[1].res.modes # <<>> <=> HoldsMatchingJoinPolicy(canJoin[1].user)

\* C24: for kind ssh, when a host role at any position has a version that is
\* none of v1..v5, FulfilledFor and CanJoin return an error.
C24_UnknownVersionIsAnError ==
    (/\ evaluator.kind = SSHSessionKind
     /\ \E i \in 1..Len(evaluator.roles) : evaluator.roles[i].version = VUnknown)
    => /\ fulfilled # <<>> => fulfilled[1].err # NoErr /\ ~fulfilled[1].yes
       /\ canJoin # <<>> => canJoin[1].res.err # NoErr /\ canJoin[1].res.modes = <<>>

\* C25: the roles entries of a join policy are the patterns and the host
\* role names the strings they are matched against: for kind ssh and v5 host
\* roles, a user whose join policy for ssh sessions has the roles entry * is
\* given the modes of that policy by CanJoin, and a user whose only roles
\* entry is a literal that is no host role's name is given none.
C25_JoinPolicyRolesArePatterns ==
    (/\ canJoin # <<>>
     /\ evaluator.kind = SSHSessionKind
     /\ HostVersionsIn({V5}))
    => /\ canJoin[1].user.username = "star" => canJoin[1].res.modes # <<>>
       /\ canJoin[1].user.username = "lit" => canJoin[1].res.modes = <<>>


\* The number of entries of the list that are the id.
Occurrences(list, id) == Cardinality({j \in 1..Len(list) : list[j] = id})

\* Client c's call of the operation returns the error in this step.
Returns(c, op, err) ==
    /\ call[c].op = op
    /\ call'[c].op = "idle"
    /\ ret'[c].err = err

\* After a successful CreateSessionTracker, GetSessionTracker returns the
\* record of the request.
C26_CreatedRecordIsReturned ==
    [][\A c \in Clients :
          Returns(c, "Create", "ok") =>
             LET got == GetSessionTracker(bkItems', call[c].id)
             IN  /\ got.err = "ok"
                 /\ got.session[1].id = call[c].id
                 /\ got.session[1].kind = KubernetesSessionKind
                 /\ got.session[1].expires = call[c].expires
                 /\ got.session[1].parts = {TrackerInitiator}
                 /\ got.session[1].state = StatePending]_vars

\* After a successful CreateSessionTracker the id is in the list of ids once.
C26_CreatedIdListedOnce ==
    [][\A c \in Clients :
          Returns(c, "Create", "ok") =>
             Occurrences(bkList', call[c].id) = 1]_vars

\* C26: after CreateSessionTracker(req) returns success, GetSessionTracker
\* of the id returns a Pending record with the id, kind and expiry of the
\* request and the initiator as its only participant, and
\* GetActiveSessionTrackers returns a list in which the id appears exactly
\* once.
C26_CreateThenGet ==
    [][\A c \in Clients :
          Returns(c, "Create", "ok") =>
             LET got    == GetSessionTracker(bkItems', call[c].id)
                 active == GetActiveSessionTrackers(bkList', bkItems')
             IN  /\ got.err = "ok"
                 /\ got.session[1].id = call[c].id
                 /\ got.session[1].kind = KubernetesSessionKind
                 /\ got.session[1].expires = call[c].expires
                 /\ got.session[1].parts = {TrackerInitiator}
                 /\ got.session[1].state = StatePending
                 /\ active.err = "ok"
                 /\ Cardinality({j \in 1..Len(active.sessions) :
                        active.sessions[j].id = call[c].id}) = 1]_vars

\* UpdatePresence, UpdateSessionTracker and RemoveSessionTracker return no
\* CompareFailed error.
C27_UpdateAndRemoveRetry ==
    [][\A c \in Clients :
          ~ \E op \in {"UpdatePresence", "UpdateSessionTracker", "Remove"} :
               Returns(c, op, "CompareFailed")]_vars

\* C27: no operation of the tracker store returns a CompareFailed error to
\* its caller; every conflict of a CompareAndSwap, on the list key or on a
\* record key, is retried.
C27_CompareFailedNeverReturned ==
    \A c \in Clients : ret[c].err # "CompareFailed"

\* One tracker has been created; its record is updated and removed by the
\* clients.
UpdateInit ==
    /\ newSession
    /\ hostOnLeave = OnSessionLeaveTerminate /\ ~tty /\ ~PresenceEnabled
    /\ evaluator = accessEvaluator
    /\ callParticipants = <<>>
    /\ fulfilled = <<>>
    /\ canJoin = <<>>
    /\ bkList = <<1>>
    /\ bkItems = [id \in Ids |->
                    IF id = 1 THEN <<NewSessionTracker(1, 0, 1440)>> ELSE <<>>]
    /\ clock = 0
    /\ call = [c \in Clients |-> IdleCall]
    /\ ret = [c \in Clients |->
                 [op |-> "none", err |-> "none", retried |-> FALSE]]
    /\ ncalls = [c \in Clients |-> 0]
    /\ newComponents

UpdateNext ==
    \/ \E c \in Clients : UpdateGet(c)
    \/ \E c \in Clients : UpdateCAS(c)
    \/ \E c \in Clients : RemoveListGet(c)
    \/ \E c \in Clients : RemoveLoad(c)
    \/ \E c \in Clients : RemoveListCAS(c)
    \/ \E c \in Clients : RemoveDelete(c)

\* Every caller is a goroutine of its own that is scheduled again after
\* each backend call and after each sleep.
ClientStep(c) ==
    \/ UpdateGet(c)
    \/ UpdateCAS(c)
    \/ RemoveListGet(c)
    \/ RemoveLoad(c)
    \/ RemoveListCAS(c)
    \/ RemoveDelete(c)

FairUpdateSpec ==
    /\ UpdateInit
    /\ [][UpdateNext]_vars
    /\ \A c \in Clients : WF_vars(ClientStep(c))

\* C28: with fair scheduling and writers that each issue finitely many
\* updates to the record, every call of UpdatePresence returns: its
\* CompareAndSwap succeeds, possibly after retries, or it returns an error
\* that is no CompareFailed.
C28_UpdatePresenceReturns ==
    \A c \in Clients :
       (call[c].op = "UpdatePresence") ~> (call[c].op = "idle")

\* An UpdatePresence has lost a CompareAndSwap to the other client, has read
\* the record again and has succeeded.
C28_ReturnedAfterRetry ==
    \E c \in Clients :
       /\ ret[c] = [op |-> "UpdatePresence", err |-> "ok", retried |-> TRUE]
       /\ ncalls[c] = 1

\* An UpdatePresence has lost a CompareAndSwap, has found the record removed
\* when it read it again and has returned NotFound.
C28_NotFoundAfterRetry ==
    \E c \in Clients :
       ret[c] = [op |-> "UpdatePresence", err |-> "NotFound", retried |-> TRUE]

\* The ids of a list.
ListIds(list) == {list[j] : j \in 1..Len(list)}

\* Client c's RemoveSessionTracker returns success in this step; the id was
\* in the list it read, once, and the list is still the one it wrote.
RemoveSucceeds(c) ==
    /\ Returns(c, "Remove", "ok")
    /\ Occurrences(call[c].list, call[c].id) = 1
    /\ bkList = call[c].newList

\* When the entry the scan stopped at is the id itself, a successful
\* RemoveSessionTracker leaves the id neither in the list nor in the records.
C29_RemoveOfFirstMatch ==
    [][\A c \in Clients :
          (RemoveSucceeds(c) /\ call[c].list[call[c].i] = call[c].id) =>
             /\ call[c].id \notin ListIds(bkList')
             /\ bkItems'[call[c].id] = <<>>]_vars

\* C29: when RemoveSessionTracker(id) returns success for an id that is in
\* the list, the id is no longer in the list afterwards and its record key
\* is deleted, whatever sessions precede it in the list.
C29_RemovedIdLeavesList ==
    [][\A c \in Clients :
          RemoveSucceeds(c) =>
             /\ call[c].id \notin ListIds(bkList')
             /\ bkItems'[call[c].id] = <<>>]_vars

\* The list a RemoveSessionTracker writes lacks the entry its scan stopped at.
C30_FirstMatchIsCut ==
    [][\A c \in Clients :
          (call[c].op = "Remove" /\ call[c].pc = "listCAS"
              /\ call'[c].pc = "delete") =>
             /\ Len(bkList') = Len(bkList) - 1
             /\ bkList' = RemoveAt(call[c].list, call[c].i)]_vars

\* C30: a successful RemoveSessionTracker(id) collects garbage as well: every
\* entry that, when the scan decided what to cut, was Terminated with
\* created + gcDelay < now, or had expires < now, is gone from the list
\* after the list write that removes id, and its record key is deleted.
\* (Stated for a list in which no id occurs twice and which is still as the
\* call wrote it.)
C30_GarbageCollectedWithRemove ==
    [][\A c \in Clients :
          (/\ Returns(c, "Remove", "ok")
           /\ Cardinality(ListIds(call[c].list)) = Len(call[c].list)
           /\ bkList = call[c].newList) =>
             \A g \in call[c].garbage :
                /\ g \notin ListIds(bkList')
                /\ bkItems'[g] = <<>>]_vars

\* Client c's update of the record returns success in this step.
UpdateSucceeds(c) ==
    \/ Returns(c, "UpdatePresence", "ok")
    \/ Returns(c, "UpdateSessionTracker", "ok")

\* C31: concurrent updates of one record are not lost.  Every UpdatePresence
\* and UpdateSessionTracker that returns success has applied its update to
\* the record as it was at that moment, so the record after any interleaving
\* is the result of the successful updates applied one after the other in
\* the order of their writes; the records of the other ids and the list
\* are unchanged.
C31_UpdatesAreNotLost ==
    [][\A c \in Clients :
          UpdateSucceeds(c) =>
             /\ bkItems[call[c].id] # <<>>
             /\ bkItems'[call[c].id] =
                   <<ApplyUpdate(bkItems[call[c].id][1], call[c].upd,
                                 call[c].now)>>
             /\ \A id \in Ids \ {call[c].id} : bkItems'[id] = bkItems[id]
             /\ bkList' = bkList]_vars

\* Both clients have updated the record of id 1 at the same time, the second
\* after a retry, and the record shows both updates.
C31_BothUpdatesApplied ==
    /\ ret[1] = [op |-> "UpdateSessionTracker", err |-> "ok", retried |-> FALSE]
    /\ ret[2] = [op |-> "UpdatePresence", err |-> "ok", retried |-> TRUE]
    /\ bkItems[1] # <<>>
    /\ bkItems[1][1].state = StateRunning
    /\ bkItems[1][1].created = 0
    /\ bkItems[1][1].lastActive = gcDelay

\* C40: when every Create and Remove that was called has returned, with
\* success or with an error, the list holds no id twice and every id of the
\* list has a record key.
C40_ListConsistentAfterCalls ==
    (\A c \in Clients : call[c].op = "idle") =>
       /\ Cardinality(ListIds(bkList)) = Len(bkList)
       /\ \A id \in ListIds(bkList) : bkItems[id] # <<>>

\* The join of party p returns nil in this step.
JoinSucceeds(p) == joinResult[p] = "none" /\ joinResult'[p] = "ok"

C33_JoinedWithoutTty ==
    /\ ~tty
    /\ \E p \in Parties :
          joinResult[p] = "ok" /\ p \in ioWriters /\ p \notin ioReaders

\* Next returns nil when every registered channel is closed.
C34_NilWhenAllClosed ==
    [][(Len(nextResults') > Len(nextResults)
          /\ queues \subseteq chClosed) =>
             nextResults'[Len(nextResults')].res = "nil"]_vars

\* C34: Next of the multiResizeQueue returns nil only when all registered
\* channels are closed; while one registered channel is open, a closed one
\* does not make Next return nil.
C34_NilOnlyWhenAllClosed ==
    [][(Len(nextResults') > Len(nextResults)
          /\ nextResults'[Len(nextResults')].res = "nil") =>
             queues \subseteq chClosed]_vars

\* The bytes of the remote stream reach the local stdout in order.
C32_StreamReachesStdout ==
    [][copyLoop = "running" /\ streamIn # <<>> /\ streamIn' # streamIn =>
          termStdout' = Append(termStdout, Head(streamIn))]_vars

\* C32: every byte read from the terminal's stdin that is not one of the
\* intercepted keys is written to the remote stream, in order.
C32_StdinReachesStream ==
    [][(termStdin # <<>> /\ termStdin' = Tail(termStdin)
          /\ Head(termStdin) \notin Intercepted) =>
             streamOut' = Append(streamOut, Head(termStdin))]_vars

\* C35: once the session is Terminated the executor is not invoked and the
\* tracker record is not set to Running: a launch that was scheduled by a
\* Join and finds the session closed when it gets the lock does not proceed.
C35_NoLaunchAfterTerminated ==
    [][state = StateTerminated =>
          /\ execInvoked' = execInvoked
          /\ (trackerState' = StateRunning => trackerState = StateRunning)]_vars

\* C36: when the session is Terminated and Close has completed, the client
\* of every party of the live roster has been closed, also of the parties
\* whose Join ran after Close.
C36_TerminatedPartiesAreClosed ==
    (state = StateTerminated /\ closeOnceDone) =>
       \A p \in parties : clientCloses[p] > 0

\* Right after the body of Close has run every party of the roster is closed.
C36_CloseClosesParties ==
    [][(~closeOnceDone /\ closeOnceDone') =>
          \A p \in parties' : clientCloses'[p] > 0]_vars

\* C37: every party of the live roster has completed a successful Join and
\* has its writer registered; a Join that returns an error leaves the party
\* out of the roster and out of the I/O manager.
C37_RosterHoldsJoinedParties ==
    \A p \in parties : joinResult[p] = "ok" /\ p \in ioWriters

\* A Join that is denied by the access check leaves the party out of the
\* roster and out of the I/O manager.
C37_DeniedJoinNotRegistered ==
    \A p \in Parties :
       joinResult[p] \in {"AccessDenied", "RolesErr"} =>
          p \notin parties /\ p \notin ioWriters /\ p \notin ioReaders

\* A launch leaves the part under s.mu in this step without having invoked
\* the executor: the tracker update, the recorder or the executor failed.
LaunchFails ==
    /\ launches'["lock"] < launches["lock"]
    /\ execInvoked' = execInvoked

\* C38: when launch fails before it invokes the executor, s.mu is released,
\* so that the deferred Close can complete and no other operation of the
\* session waits for the lock forever.
C38_FailedLaunchReleasesLock ==
    [][LaunchFails => mu' = "free"]_vars

\* A goroutine of waitOnAccess that has nothing left to do: it has not
\* been spawned, it has returned, or it waits for a value no one submits.
waiterIdle(w) ==
    \/ waiter[w].pc \in {"none", "done"}
    \/ waiter[w].pc = "wait" /\ waiter[w].next > Len(published)

C39_RunningNotMissed ==
    (state = StateRunning /\ \A w \in Waiters : waiterIdle(w)) => ioOn

\* C39, second half alone: no registration after Close.
C39_NoRegisterAfterClose ==
    \A w \in Waiters : waiter[w].pc # "registerAfterClose"

\* C39, the path that works: a waiter that registered before the resuming
\* join receives Running and turns the gate on.
C39_WaiterResumed ==
    \E w \in Waiters : /\ waiter[w].pc = "done"
                       /\ published[waiter[w].next] = StateRunning
                       /\ ioOn /\ state = StateRunning


====
